---- MODULE Spec2Model ----
(***************************************************************************)
(* data-builder: runtime schema validation (SchemaValidator), schema       *)
(* compatibility (TypeCompatibility), the type registry (TypeRegistry) and *)
(* the node factory (ValueNodeFactory).                                    *)
(*                                                                         *)
(* JavaScript values are records tagged by `t`; schemas are records tagged *)
(* by `kind`, an optional field of the source being a field that the       *)
(* record has or lacks.  Sequences are 1-based here and 0-based in the     *)
(* source: index i of the source is position i+1.                          *)
(***************************************************************************)
EXTENDS Integers, Sequences, FiniteSets, TLC

VARIABLES types, pc, args, result

vars == <<types, pc, args, result>>

(***************************************************************************)
(* Bounds of the checked universe.                                         *)
(***************************************************************************)
\* longest array value and longest `items` list
MaxLen == 2
\* most property names in one object value or one `properties`
MaxKeys == 2

(***************************************************************************)
(* JavaScript values and the language operations the source applies.      *)
(***************************************************************************)
Has(r, f) == f \in DOMAIN r

Str == [t |-> "string"]
Num == [t |-> "number"]
NaNValue == [t |-> "nan"]
True == [t |-> "boolean", b |-> TRUE]
False == [t |-> "boolean", b |-> FALSE]
Null == [t |-> "null"]
Undefined == [t |-> "undefined"]
Fn == [t |-> "function"]

Arr(elems) == [t |-> "array", elems |-> elems]

\* an object literal: own enumerable properties in insertion order, and
\* Object.prototype behind them
Obj(own) == [t |-> "object", own |-> own, proto |-> "Object.prototype"]

\* Object.create(null) with own properties
BareObj(own) == [t |-> "object", own |-> own, proto |-> "null"]

Prop(k, v) == [key |-> k, val |-> v]

\* the members every object literal inherits (one of them stands for all)
ObjectPrototype == <<Prop("toString", Fn)>>

TypeOf(v) ==
    CASE v.t = "string" -> "string"
      [] v.t = "number" -> "number"
      [] v.t = "nan" -> "number"
      [] v.t = "boolean" -> "boolean"
      [] v.t = "undefined" -> "undefined"
      [] v.t = "function" -> "function"
      [] v.t = "null" -> "object"
      [] v.t = "array" -> "object"
      [] v.t = "object" -> "object"

IsNaN(v) == v.t = "nan"

IsArray(v) == v.t = "array"

\* Object.keys(o): the own enumerable keys, in order
ObjectKeys(o) == [i \in 1..Len(o.own) |-> o.own[i].key]

KeySet(props) == {props[i].key : i \in 1..Len(props)}

Inherited(o) == IF o.proto = "Object.prototype" THEN ObjectPrototype ELSE <<>>

\* key in o: own or inherited
In(k, o) == k \in KeySet(o.own) \/ k \in KeySet(Inherited(o))

Lookup(props, k) == props[CHOOSE i \in 1..Len(props) : props[i].key = k].val

\* o[k]: the own property, else the inherited one, else undefined
Get(o, k) ==
    IF k \in KeySet(o.own) THEN Lookup(o.own, k)
    ELSE IF k \in KeySet(Inherited(o)) THEN Lookup(Inherited(o), k)
    ELSE Undefined

\* a settled promise is an object: truthy whatever it resolves to
Promise(v) == [t |-> "promise", resolved |-> v]

\* !!v (Str is a non-empty string and Num a non-zero number)
Truthy(v) ==
    CASE v.t = "boolean" -> v.b
      [] v.t \in {"undefined", "null", "nan"} -> FALSE
      [] OTHER -> TRUE

\* await v
Await(v) == IF v.t = "promise" THEN v.resolved ELSE v

\* v instanceof Promise
IsPromise(v) == v.t = "promise"

\* Promise.resolve(v)
PromiseResolve(v) == IF IsPromise(v) THEN v ELSE Promise(v)

JsBool(b) == IF b THEN True ELSE False

Range(f) == {f[i] : i \in DOMAIN f}

RECURSIVE Flatten(_)
Flatten(ss) == IF ss = <<>> THEN <<>> ELSE Head(ss) \o Flatten(Tail(ss))

MapPrefix(prefix, errs) == [i \in 1..Len(errs) |-> prefix \o errs[i]]

(***************************************************************************)
(* SchemaBuilder.                                                          *)
(***************************************************************************)
SchemaBuilder_string == [kind |-> "primitive", type |-> "string"]
SchemaBuilder_number == [kind |-> "primitive", type |-> "number"]
SchemaBuilder_boolean == [kind |-> "primitive", type |-> "boolean"]

\* options: a record with any of minItems, maxItems (<<>> for none)
SchemaBuilder_array(items, options) ==
    options @@ [kind |-> "array", items |-> items]

\* properties: the own entries of an object literal; options: a record with
\* any of required, additionalProperties
SchemaBuilder_object(properties, options) ==
    [kind |-> "object",
     properties |-> Obj(properties),
     additionalProperties |->
        IF Has(options, "additionalProperties")
        THEN options.additionalProperties ELSE FALSE]
    @@ (IF Has(options, "required")
        THEN [required |-> options.required] ELSE <<>>)

\* the validators callers pass in options.validator, by name: each is a
\* function of the value; the last one answers with a promise
UserValidator(name, value) ==
    CASE name = "isString" -> JsBool(TypeOf(value) = "string")
      [] name = "isNumber" -> JsBool(TypeOf(value) = "number")
      [] name = "never" -> False
      [] name = "asyncIsString" -> Promise(JsBool(TypeOf(value) = "string"))

\* options: a record with any of validator (a name), innerSchema
SchemaBuilder_custom(typeName, options) ==
    [kind |-> "custom", typeName |-> typeName]
    @@ (IF Has(options, "validator")
        THEN [validator |-> options.validator] ELSE <<>>)
    @@ (IF Has(options, "innerSchema")
        THEN [innerSchema |-> options.innerSchema] ELSE <<>>)

\* schema.validator(value) of a schema made by SchemaBuilder.custom: the
\* wrapper the builder installs around options.validator
CallValidator(schema, value) ==
    LET r == UserValidator(schema.validator, value)
    IN  IF IsPromise(r) THEN r ELSE PromiseResolve(r)

\* x.kind, of a schema or of whatever else was found in its place
Kind(x) == IF Has(x, "kind") THEN x.kind ELSE "undefined"

KnownKinds == {"primitive", "array", "object", "custom"}

\* a schema of a kind the library does not know, as a cast allows
OddSchema == [kind |-> "weird"]

(***************************************************************************)
(* SchemaValidator, synchronous (src/core/types.ts).  Each validateX       *)
(* yields the errors it pushes, in order.                                  *)
(***************************************************************************)
ValidationResult(errors) == [isValid |-> Len(errors) = 0, errors |-> errors]

\* validatePrimitive without the NaN case
Mutant_validatePrimitive(value, schema) ==
    IF TypeOf(value) # schema.type
    THEN <<"Expected " \o schema.type \o ", got " \o TypeOf(value)>>
    ELSE <<>>

validatePrimitive(value, schema) ==
    LET expectedType == schema.type
        actualType == TypeOf(value)
    IN  IF expectedType = "number" /\ actualType = "number" /\ IsNaN(value)
        THEN <<"Number value cannot be NaN">>
        ELSE IF actualType # expectedType
        THEN <<"Expected " \o expectedType \o ", got " \o actualType>>
        ELSE <<>>

LengthErrors(value, schema) ==
    LET n == Len(value.elems)
    IN  (IF Has(schema, "minItems") /\ n < schema.minItems
         THEN <<"Array must have at least " \o ToString(schema.minItems)
                \o " items, got " \o ToString(n)>>
         ELSE <<>>)
        \o
        (IF Has(schema, "maxItems") /\ n > schema.maxItems
         THEN <<"Array must have at most " \o ToString(schema.maxItems)
                \o " items, got " \o ToString(n)>>
         ELSE <<>>)

\* validateObject, the loop over schema.required
MissingErrors(obj, schema) ==
    IF Has(schema, "required")
    THEN Flatten([i \in 1..Len(schema.required) |->
            IF ~In(schema.required[i], obj)
            THEN <<"Missing required property: '" \o schema.required[i] \o "'">>
            ELSE <<>>])
    ELSE <<>>

\* the loop over Object.keys(obj) run whatever additionalProperties says
Mutant_UnexpectedErrors(obj, schema) ==
    LET allowedKeys == KeySet(schema.properties.own)
        keys == ObjectKeys(obj)
    IN  Flatten([i \in 1..Len(keys) |->
            IF keys[i] \notin allowedKeys
            THEN <<"Unexpected property: '" \o keys[i] \o "'">>
            ELSE <<>>])

\* validateObject, the loop over Object.keys(obj)
UnexpectedErrors(obj, schema) ==
    IF ~(Has(schema, "additionalProperties") /\ schema.additionalProperties)
    THEN LET allowedKeys == KeySet(schema.properties.own)
             keys == ObjectKeys(obj)
         IN  Flatten([i \in 1..Len(keys) |->
                IF keys[i] \notin allowedKeys
                THEN <<"Unexpected property: '" \o keys[i] \o "'">>
                ELSE <<>>])
    ELSE <<>>

\* what a validateX leaves behind: the errors it pushed, or the exception
\* that a validateValue it called raised and nobody caught
Pushed(errors) == [errors |-> errors]

\* stands for a loop iteration that calls nothing and pushes nothing
NoCall == ValidationResult(<<>>)

\* the loop left at the first invalid result
Mutant_Nested(calls, prefixes) ==
    LET raised == {i \in 1..Len(calls) : Has(calls[i], "threw")}
        invalid == {i \in 1..Len(calls) : ~Has(calls[i], "threw") /\ ~calls[i].isValid}
    IN  IF raised # {}
        THEN calls[CHOOSE i \in raised : \A j \in raised : i <= j]
        ELSE IF invalid = {} THEN Pushed(<<>>)
        ELSE LET first == CHOOSE i \in invalid : \A j \in invalid : i <= j
             IN  Pushed(MapPrefix(prefixes[first], calls[first].errors))

\* the calls of validateValue made by one loop, in order: the first one to
\* raise ends the loop; otherwise each invalid result pushes its errors,
\* prefixed
Nested(calls, prefixes) ==
    LET raised == {i \in 1..Len(calls) : Has(calls[i], "threw")}
    IN  IF raised # {}
        THEN calls[CHOOSE i \in raised : \A j \in raised : i <= j]
        ELSE Pushed(Flatten([i \in 1..Len(calls) |->
                IF ~calls[i].isValid
                THEN MapPrefix(prefixes[i], calls[i].errors)
                ELSE <<>>]))

RECURSIVE validateValue(_, _)
RECURSIVE validateArray(_, _)
RECURSIVE validateObject(_, _)
RECURSIVE validateCustom(_, _)

\* validateValue passing over a kind it does not know
Mutant_validateValue(value, schema) ==
    LET pushed ==
            CASE Kind(schema) = "primitive" -> Pushed(validatePrimitive(value, schema))
              [] Kind(schema) = "array" -> validateArray(value, schema)
              [] Kind(schema) = "object" -> validateObject(value, schema)
              [] Kind(schema) = "custom" -> validateCustom(value, schema)
              [] OTHER -> Pushed(<<>>)
    IN  IF Has(pushed, "threw") THEN pushed ELSE ValidationResult(pushed.errors)

validateValue(value, schema) ==
    LET pushed ==
            CASE Kind(schema) = "primitive" -> Pushed(validatePrimitive(value, schema))
              [] Kind(schema) = "array" -> validateArray(value, schema)
              [] Kind(schema) = "object" -> validateObject(value, schema)
              [] Kind(schema) = "custom" -> validateCustom(value, schema)
              [] OTHER -> [threw |-> "Unknown schema kind: " \o Kind(schema)]
    IN  IF Has(pushed, "threw") THEN pushed ELSE ValidationResult(pushed.errors)

\* validateArray written differently in one place:
\*   "mismatchLast"  the tuple-length error pushed after the per-index errors
\*   "perElement"    an empty tuple reporting every element it received
\*   "stopAtLength"  a return after a length-bound error
\*   "noReturn"      no return after 'Expected array': a tuple schema goes
\*                   on to compare value.length, which is undefined
validateArray_Variant(value, schema, variant) ==
    IF ~IsArray(value)
    THEN IF variant = "noReturn" /\ Has(schema, "items") /\ Len(schema.items) > 1
         THEN Pushed(<<"Expected array",
                       "Expected tuple of " \o ToString(Len(schema.items))
                       \o " elements, but got undefined elements">>)
         ELSE Pushed(<<"Expected array">>)
    ELSE
    LET n == Len(value.elems)
        m == IF Has(schema, "items") THEN Len(schema.items) ELSE 0
        homogeneous ==
            Nested([i \in 1..n |-> validateValue(value.elems[i], schema.items[1])],
                   [i \in 1..n |-> "Item[" \o ToString(i - 1) \o "]: "])
        mismatch ==
            IF n # m
            THEN <<"Expected tuple of " \o ToString(m) \o " elements, but got "
                   \o ToString(n) \o " elements">>
            ELSE <<>>
        tuple ==
            Nested([i \in 1..m |->
                        IF i - 1 < n
                        THEN validateValue(value.elems[i], schema.items[i])
                        ELSE NoCall],
                   [i \in 1..m |-> "Item at index " \o ToString(i - 1) \o ": "])
        emptyTuple ==
            "Array schema defines an empty tuple, but received a non-empty array."
        items ==
            IF Has(schema, "items") /\ m > 0
            THEN IF m = 1 THEN homogeneous
                 ELSE IF Has(tuple, "threw") THEN tuple
                 ELSE IF variant = "mismatchLast" THEN Pushed(tuple.errors \o mismatch)
                 ELSE Pushed(mismatch \o tuple.errors)
            ELSE IF Has(schema, "items") /\ m = 0 /\ n > 0
            THEN IF variant = "perElement"
                 THEN Pushed([i \in 1..n |-> emptyTuple])
                 ELSE Pushed(<<emptyTuple>>)
            ELSE Pushed(<<>>)
    IN  IF variant = "stopAtLength" /\ LengthErrors(value, schema) # <<>>
        THEN Pushed(LengthErrors(value, schema))
        ELSE IF Has(items, "threw") THEN items
        ELSE Pushed(LengthErrors(value, schema) \o items.errors)

Mutant_validateArray_MismatchLast(value, schema) ==
    validateArray_Variant(value, schema, "mismatchLast")

Mutant_validateArray_PerElement(value, schema) ==
    validateArray_Variant(value, schema, "perElement")

Mutant_validateArray_StopAtLength(value, schema) ==
    validateArray_Variant(value, schema, "stopAtLength")

Mutant_validateArray_NoReturn(value, schema) ==
    validateArray_Variant(value, schema, "noReturn")

validateArray(value, schema) ==
    IF ~IsArray(value) THEN Pushed(<<"Expected array">>)
    ELSE
    LET n == Len(value.elems)
        m == IF Has(schema, "items") THEN Len(schema.items) ELSE 0
        homogeneous ==
            Nested([i \in 1..n |-> validateValue(value.elems[i], schema.items[1])],
                   [i \in 1..n |-> "Item[" \o ToString(i - 1) \o "]: "])
        mismatch ==
            IF n # m
            THEN <<"Expected tuple of " \o ToString(m) \o " elements, but got "
                   \o ToString(n) \o " elements">>
            ELSE <<>>
        tuple ==
            Nested([i \in 1..m |->
                        IF i - 1 < n
                        THEN validateValue(value.elems[i], schema.items[i])
                        ELSE NoCall],
                   [i \in 1..m |-> "Item at index " \o ToString(i - 1) \o ": "])
        items ==
            IF Has(schema, "items") /\ m > 0
            THEN IF m = 1 THEN homogeneous
                 ELSE IF Has(tuple, "threw") THEN tuple
                 ELSE Pushed(mismatch \o tuple.errors)
            ELSE IF Has(schema, "items") /\ m = 0 /\ n > 0
            THEN Pushed(<<"Array schema defines an empty tuple, but received a non-empty array.">>)
            ELSE Pushed(<<>>)
    IN  IF Has(items, "threw") THEN items
        ELSE Pushed(LengthErrors(value, schema) \o items.errors)

validateObject(value, schema) ==
    IF TypeOf(value) # "object" \/ value.t = "null" \/ IsArray(value)
    THEN Pushed(<<"Expected object">>)
    ELSE
    LET obj == value
        entries == schema.properties.own
        props ==
            Nested([i \in 1..Len(entries) |->
                        IF In(entries[i].key, obj)
                        THEN validateValue(Get(obj, entries[i].key), entries[i].val)
                        ELSE NoCall],
                   [i \in 1..Len(entries) |-> "Property '" \o entries[i].key \o "': "])
    IN  IF Has(props, "threw") THEN props
        ELSE Pushed(MissingErrors(obj, schema) \o props.errors
                    \o UnexpectedErrors(obj, schema))

\* validateCustom asking the registry whether the type name is known
Mutant_validateCustom(value, schema) ==
    LET failed ==
            IF schema.typeName \notin {types[i].name : i \in 1..Len(types)}
            THEN <<"Custom validation failed for type: " \o schema.typeName>>
            ELSE <<>>
        inner ==
            IF Has(schema, "innerSchema")
            THEN Nested(<<validateValue(value, schema.innerSchema)>>, <<"">>)
            ELSE Pushed(<<>>)
    IN  IF Has(inner, "threw") THEN inner ELSE Pushed(failed \o inner.errors)

\* validateCustom naming the type in front of the inner schema's errors
Mutant_validateCustom_Prefixed(value, schema) ==
    LET failed ==
            IF Has(schema, "validator") /\ ~Truthy(CallValidator(schema, value))
            THEN <<"Custom validation failed for type: " \o schema.typeName>>
            ELSE <<>>
        inner ==
            IF Has(schema, "innerSchema")
            THEN Nested(<<validateValue(value, schema.innerSchema)>>,
                        <<"Type '" \o schema.typeName \o "': ">>)
            ELSE Pushed(<<>>)
    IN  IF Has(inner, "threw") THEN inner ELSE Pushed(failed \o inner.errors)

validateCustom(value, schema) ==
    LET failed ==
            IF Has(schema, "validator") /\ ~Truthy(CallValidator(schema, value))
            THEN <<"Custom validation failed for type: " \o schema.typeName>>
            ELSE <<>>
        inner ==
            IF Has(schema, "innerSchema")
            THEN Nested(<<validateValue(value, schema.innerSchema)>>, <<"">>)
            ELSE Pushed(<<>>)
    IN  IF Has(inner, "threw") THEN inner ELSE Pushed(failed \o inner.errors)

(***************************************************************************)
(* SchemaValidator, asynchronous (the bundle).  The same descent, each     *)
(* nested validation awaited before the next starts; what is modelled is   *)
(* the value the returned promise settles to, `threw` standing for a       *)
(* rejection.  validatePrimitive and the length checks are the same text   *)
(* in both builds.                                                         *)
(***************************************************************************)
RECURSIVE Async_validateValue(_, _)
RECURSIVE Async_validateArray(_, _)
RECURSIVE Async_validateObject(_, _)
RECURSIVE Async_validateCustom(_, _)

Async_validateValue(value, schema) ==
    LET pushed ==
            CASE Kind(schema) = "primitive" -> Pushed(validatePrimitive(value, schema))
              [] Kind(schema) = "array" -> Async_validateArray(value, schema)
              [] Kind(schema) = "object" -> Async_validateObject(value, schema)
              [] Kind(schema) = "custom" -> Async_validateCustom(value, schema)
              [] OTHER -> [threw |-> "Unknown schema kind: " \o Kind(schema)]
    IN  IF Has(pushed, "threw") THEN pushed ELSE ValidationResult(pushed.errors)

Async_validateArray(value, schema) ==
    IF ~IsArray(value) THEN Pushed(<<"Expected array">>)
    ELSE
    LET n == Len(value.elems)
        m == IF Has(schema, "items") THEN Len(schema.items) ELSE 0
        homogeneous ==
            Nested([i \in 1..n |-> Async_validateValue(value.elems[i], schema.items[1])],
                   [i \in 1..n |-> "Item[" \o ToString(i - 1) \o "]: "])
        mismatch ==
            IF n # m
            THEN <<"Expected tuple of " \o ToString(m) \o " elements, but got "
                   \o ToString(n) \o " elements">>
            ELSE <<>>
        tuple ==
            Nested([i \in 1..m |->
                        IF i - 1 < n
                        THEN Async_validateValue(value.elems[i], schema.items[i])
                        ELSE NoCall],
                   [i \in 1..m |-> "Item at index " \o ToString(i - 1) \o ": "])
        items ==
            IF Has(schema, "items") /\ m > 0
            THEN IF m = 1 THEN homogeneous
                 ELSE IF Has(tuple, "threw") THEN tuple
                 ELSE Pushed(mismatch \o tuple.errors)
            ELSE IF Has(schema, "items") /\ m = 0 /\ n > 0
            THEN Pushed(<<"Array schema defines an empty tuple, but received a non-empty array.">>)
            ELSE Pushed(<<>>)
    IN  IF Has(items, "threw") THEN items
        ELSE Pushed(LengthErrors(value, schema) \o items.errors)

Async_validateObject(value, schema) ==
    IF TypeOf(value) # "object" \/ value.t = "null" \/ IsArray(value)
    THEN Pushed(<<"Expected object">>)
    ELSE
    LET obj == value
        entries == schema.properties.own
        props ==
            Nested([i \in 1..Len(entries) |->
                        IF In(entries[i].key, obj)
                        THEN Async_validateValue(Get(obj, entries[i].key), entries[i].val)
                        ELSE NoCall],
                   [i \in 1..Len(entries) |-> "Property '" \o entries[i].key \o "': "])
    IN  IF Has(props, "threw") THEN props
        ELSE Pushed(MissingErrors(obj, schema) \o props.errors
                    \o UnexpectedErrors(obj, schema))

Async_validateCustom(value, schema) ==
    LET failed ==
            IF Has(schema, "validator")
            THEN LET res == CallValidator(schema, value)
                     isValid == Await(res)
                 IN  IF ~Truthy(isValid)
                     THEN <<"Custom validation failed for type: " \o schema.typeName>>
                     ELSE <<>>
            ELSE <<>>
        inner ==
            IF Has(schema, "innerSchema")
            THEN Nested(<<Async_validateValue(value, schema.innerSchema)>>, <<"">>)
            ELSE Pushed(<<>>)
    IN  IF Has(inner, "threw") THEN inner ELSE Pushed(failed \o inner.errors)

(***************************************************************************)
(* TypeCompatibility, the schema-level check.  A schema handed in may be   *)
(* whatever source.properties[key] yields, so `kind` is read with Kind.    *)
(***************************************************************************)
RECURSIVE areSchemasCompatible(_, _)

\* case 'array' comparing only the positions both sides have
Mutant_areArraySchemasCompatible(source, target) ==
    IF ~Has(source, "items") \/ ~Has(target, "items")
    THEN ~Has(source, "items") /\ ~Has(target, "items")
    ELSE IF Len(source.items) = 0 \/ Len(target.items) = 0
    THEN Len(source.items) = Len(target.items)
    ELSE \A i \in 1..Len(source.items) :
            i <= Len(target.items) =>
                areSchemasCompatible(source.items[i], target.items[i])

\* areSchemasCompatible, case 'array'
areArraySchemasCompatible(source, target) ==
    IF ~Has(source, "items") \/ ~Has(target, "items")
    THEN ~Has(source, "items") /\ ~Has(target, "items")
    ELSE IF Len(source.items) = 0 \/ Len(target.items) = 0
    THEN Len(source.items) = Len(target.items)
    ELSE IF Len(source.items) = 1 /\ Len(target.items) = 1
    THEN areSchemasCompatible(source.items[1], target.items[1])
    ELSE IF Len(source.items) = Len(target.items)
    THEN \A i \in 1..Len(source.items) :
            areSchemasCompatible(source.items[i], target.items[i])
    ELSE FALSE

\* areObjectSchemasCompatible refusing an open source for a closed target
Mutant_areObjectSchemasCompatible(source, target) ==
    LET targetRequiredKeys == IF Has(target, "required") THEN Range(target.required) ELSE {}
        sourceKeys == Range(ObjectKeys(source.properties))
        entries == target.properties.own
    IN  /\ source.additionalProperties => target.additionalProperties
        /\ \A requiredKey \in targetRequiredKeys : requiredKey \in sourceKeys
        /\ \A i \in 1..Len(entries) :
                In(entries[i].key, source.properties) =>
                    areSchemasCompatible(Get(source.properties, entries[i].key),
                                         entries[i].val)

areObjectSchemasCompatible(source, target) ==
    LET targetRequiredKeys == IF Has(target, "required") THEN Range(target.required) ELSE {}
        sourceKeys == Range(ObjectKeys(source.properties))
        entries == target.properties.own
    IN  /\ \A requiredKey \in targetRequiredKeys : requiredKey \in sourceKeys
        /\ \A i \in 1..Len(entries) :
                In(entries[i].key, source.properties) =>
                    areSchemasCompatible(Get(source.properties, entries[i].key),
                                         entries[i].val)

\* areSchemasCompatible letting schemas of different kinds through
Mutant_areSchemasCompatible_AnyKind(sourceSchema, targetSchema) ==
    IF Kind(sourceSchema) # Kind(targetSchema) THEN TRUE
    ELSE CASE Kind(sourceSchema) = "primitive" -> sourceSchema.type = targetSchema.type
           [] Kind(sourceSchema) = "array" ->
                areArraySchemasCompatible(sourceSchema, targetSchema)
           [] Kind(sourceSchema) = "object" ->
                areObjectSchemasCompatible(sourceSchema, targetSchema)
           [] Kind(sourceSchema) = "custom" ->
                sourceSchema.typeName = targetSchema.typeName
           [] OTHER -> FALSE

\* areSchemasCompatible comparing custom schemas field by field
Mutant_areSchemasCompatible_CustomByValue(sourceSchema, targetSchema) ==
    IF Kind(sourceSchema) # Kind(targetSchema) THEN FALSE
    ELSE CASE Kind(sourceSchema) = "primitive" -> sourceSchema.type = targetSchema.type
           [] Kind(sourceSchema) = "array" ->
                areArraySchemasCompatible(sourceSchema, targetSchema)
           [] Kind(sourceSchema) = "object" ->
                areObjectSchemasCompatible(sourceSchema, targetSchema)
           [] Kind(sourceSchema) = "custom" -> sourceSchema = targetSchema
           [] OTHER -> FALSE

areSchemasCompatible(sourceSchema, targetSchema) ==
    IF Kind(sourceSchema) # Kind(targetSchema) THEN FALSE
    ELSE CASE Kind(sourceSchema) = "primitive" -> sourceSchema.type = targetSchema.type
           [] Kind(sourceSchema) = "array" ->
                areArraySchemasCompatible(sourceSchema, targetSchema)
           [] Kind(sourceSchema) = "object" ->
                areObjectSchemasCompatible(sourceSchema, targetSchema)
           [] Kind(sourceSchema) = "custom" ->
                sourceSchema.typeName = targetSchema.typeName
           [] OTHER -> FALSE

(***************************************************************************)
(* TypeRegistry: a Map from name to definition, in insertion order, holding*)
(* the three built-in types once the class is initialised.                 *)
(***************************************************************************)
TypeDefinition(name, schema) == [name |-> name, schema |-> schema]

STRING_TYPE == TypeDefinition("string", SchemaBuilder_string)
NUMBER_TYPE == TypeDefinition("number", SchemaBuilder_number)
BOOLEAN_TYPE == TypeDefinition("boolean", SchemaBuilder_boolean)

TypeNames(reg) == {reg[i].name : i \in 1..Len(reg)}

\* this.types.has(name)
hasType(reg, typeName) == typeName \in TypeNames(reg)

\* this.types.get(name), for a name the map holds
getType(reg, typeName) == reg[CHOOSE i \in 1..Len(reg) : reg[i].name = typeName]

\* Array.from(this.types.keys())
getTypeNames(reg) == [i \in 1..Len(reg) |-> reg[i].name]

\* registerType putting the definition in place of the one registered
Mutant_registerType(reg, typeDefinition) ==
    IF hasType(reg, typeDefinition.name)
    THEN [types |-> [i \in 1..Len(reg) |->
                        IF reg[i].name = typeDefinition.name THEN typeDefinition
                        ELSE reg[i]]]
    ELSE [types |-> Append(reg, typeDefinition)]

\* registerType: the registry afterwards and what the call raised, if anything
registerType(reg, typeDefinition) ==
    IF hasType(reg, typeDefinition.name)
    THEN [types |-> reg,
          threw |-> "Type '" \o typeDefinition.name \o "' is already registered"]
    ELSE [types |-> Append(reg, typeDefinition)]

\* the static initialiser of TypeRegistry
InitialTypes ==
    registerType(registerType(registerType(<<>>, STRING_TYPE).types,
                              NUMBER_TYPE).types, BOOLEAN_TYPE).types

\* defineType setting the map entry itself, whatever the map holds
Mutant_defineType(reg, name, schema, description) ==
    LET typeDefinition ==
            [name |-> name, schema |-> schema, description |-> description]
    IN  [types |-> IF hasType(reg, name)
                   THEN [i \in 1..Len(reg) |->
                            IF reg[i].name = name THEN typeDefinition ELSE reg[i]]
                   ELSE Append(reg, typeDefinition),
         returned |-> typeDefinition]

\* defineType: the registry afterwards, and the definition returned or what
\* the call raised
defineType(reg, name, schema, description) ==
    LET typeDefinition ==
            [name |-> name, schema |-> schema, description |-> description]
        registered == registerType(reg, typeDefinition)
    IN  IF Has(registered, "threw") THEN registered
        ELSE [types |-> registered.types, returned |-> typeDefinition]

(***************************************************************************)
(* TypeCompatibility, by type name.                                        *)
(***************************************************************************)
\* areCompatible looking both names up first
Mutant_areCompatible(reg, sourceTypeName, targetTypeName) ==
    IF ~hasType(reg, sourceTypeName) \/ ~hasType(reg, targetTypeName) THEN FALSE
    ELSE IF sourceTypeName = targetTypeName THEN TRUE
    ELSE areSchemasCompatible(getType(reg, sourceTypeName).schema,
                              getType(reg, targetTypeName).schema)

areCompatible(reg, sourceTypeName, targetTypeName) ==
    IF sourceTypeName = targetTypeName THEN TRUE
    ELSE IF ~hasType(reg, sourceTypeName) \/ ~hasType(reg, targetTypeName) THEN FALSE
    ELSE areSchemasCompatible(getType(reg, sourceTypeName).schema,
                              getType(reg, targetTypeName).schema)

\* checkCompatibility looking at the target before the source
Mutant_checkCompatibility(reg, sourceTypeName, targetTypeName) ==
    IF sourceTypeName = targetTypeName THEN [isCompatible |-> TRUE]
    ELSE IF ~hasType(reg, targetTypeName)
    THEN [isCompatible |-> FALSE,
          reason |-> "Unknown target type: " \o targetTypeName]
    ELSE IF ~hasType(reg, sourceTypeName)
    THEN [isCompatible |-> FALSE,
          reason |-> "Unknown source type: " \o sourceTypeName]
    ELSE IF ~areSchemasCompatible(getType(reg, sourceTypeName).schema,
                                  getType(reg, targetTypeName).schema)
    THEN [isCompatible |-> FALSE,
          reason |-> "Type mismatch: " \o sourceTypeName
                     \o " is not compatible with " \o targetTypeName]
    ELSE [isCompatible |-> TRUE]

checkCompatibility(reg, sourceTypeName, targetTypeName) ==
    IF sourceTypeName = targetTypeName THEN [isCompatible |-> TRUE]
    ELSE IF ~hasType(reg, sourceTypeName)
    THEN [isCompatible |-> FALSE,
          reason |-> "Unknown source type: " \o sourceTypeName]
    ELSE IF ~hasType(reg, targetTypeName)
    THEN [isCompatible |-> FALSE,
          reason |-> "Unknown target type: " \o targetTypeName]
    ELSE IF ~areSchemasCompatible(getType(reg, sourceTypeName).schema,
                                  getType(reg, targetTypeName).schema)
    THEN [isCompatible |-> FALSE,
          reason |-> "Type mismatch: " \o sourceTypeName
                     \o " is not compatible with " \o targetTypeName]
    ELSE [isCompatible |-> TRUE]

isNodeCompatible(reg, node, targetTypeName) ==
    checkCompatibility(reg, node.type, targetTypeName)

(***************************************************************************)
(* ValueNodeFactory.createTypedNode of the source tree, which validates    *)
(* with the synchronous SchemaValidator, and of the bundle, which awaits   *)
(* the asynchronous one.                                                   *)
(***************************************************************************)
RECURSIVE Join(_, _)
Join(strs, sep) ==
    IF Len(strs) = 0 THEN ""
    ELSE IF Len(strs) = 1 THEN strs[1]
    ELSE strs[1] \o sep \o Join(Tail(strs), sep)

UnknownTypeError(reg, typeName) ==
    [threw |-> "Unknown type: " \o typeName \o ". Available types: "
               \o Join(getTypeNames(reg), ", ")]

ValidationFailedError(typeName, validation) ==
    [threw |-> "Schema validation failed for type '" \o typeName \o "': "
               \o Join(validation.errors, "; ")]

createTypedNode(reg, typeName, value) ==
    IF ~hasType(reg, typeName) THEN UnknownTypeError(reg, typeName)
    ELSE LET validation == validateValue(value, getType(reg, typeName).schema)
         IN  IF Has(validation, "threw") THEN validation
             ELSE IF ~validation.isValid
             THEN ValidationFailedError(typeName, validation)
             ELSE [node |-> [type |-> typeName, value |-> value]]

Bundle_createTypedNode(reg, typeName, value) ==
    IF ~hasType(reg, typeName) THEN UnknownTypeError(reg, typeName)
    ELSE LET validation == Async_validateValue(value, getType(reg, typeName).schema)
         IN  IF Has(validation, "threw") THEN validation
             ELSE IF ~validation.isValid
             THEN ValidationFailedError(typeName, validation)
             ELSE [node |-> [type |-> typeName, value |-> value]]

\* validateTypeValue: the errors of the value against the registered schema
validateTypeValue(reg, typeName, value) ==
    IF ~hasType(reg, typeName) THEN [returned |-> <<"Unknown type: " \o typeName>>]
    ELSE LET validation == validateValue(value, getType(reg, typeName).schema)
         IN  IF Has(validation, "threw") THEN validation
             ELSE [returned |-> validation.errors]

\* tryCreateNode letting the 'Unknown type' error out
Mutant_tryCreateNode(reg, typeName, value) ==
    LET created == createTypedNode(reg, typeName, value)
    IN  IF ~hasType(reg, typeName) THEN created
        ELSE IF Has(created, "threw")
        THEN [returned |-> [success |-> FALSE, error |-> created.threw]]
        ELSE [returned |-> [success |-> TRUE, node |-> created.node]]

\* tryCreateNode: try { createTypedNode } catch (error) { error.message }
tryCreateNode(reg, typeName, value) ==
    LET created == createTypedNode(reg, typeName, value)
    IN  IF Has(created, "threw")
        THEN [returned |-> [success |-> FALSE, error |-> created.threw]]
        ELSE [returned |-> [success |-> TRUE, node |-> created.node]]

Bundle_tryCreateNode(reg, typeName, value) ==
    LET created == Bundle_createTypedNode(reg, typeName, value)
    IN  IF Has(created, "threw")
        THEN [returned |-> [success |-> FALSE, error |-> created.threw]]
        ELSE [returned |-> [success |-> TRUE, node |-> created.node]]

(***************************************************************************)
(* The values and schemas the operations are applied to.                   *)
(***************************************************************************)
SeqsUpTo(S, n) == UNION {[1..k -> S] : k \in 0..n}

IsInjective(f) == \A i, j \in DOMAIN f : f[i] = f[j] => i = j

PropertyNames == {"id", "name", "toString"}

\* lists of at most MaxKeys distinct property names
KeyLists == {ks \in SeqsUpTo(PropertyNames, MaxKeys) : IsInjective(ks)}

Atoms == {Str, Num, NaNValue, True, Null, Undefined, Fn}

ElementValues == {Str, Num}

ArrayValues == {Arr(es) : es \in SeqsUpTo(ElementValues, MaxLen)}

ObjectValues ==
    UNION {{Obj([i \in 1..Len(ks) |-> Prop(ks[i], vs[i])]) :
                vs \in [1..Len(ks) -> ElementValues]} : ks \in KeyLists}

NestedValues ==
    {Arr(<<Arr(<<Num>>)>>),
     Arr(<<Str, Arr(<<Str, Num>>)>>),
     Obj(<<Prop("id", Arr(<<Str, Num>>))>>),
     Obj(<<Prop("id", Obj(<<Prop("name", Num)>>)), Prop("name", Str)>>),
     BareObj(<<>>),
     BareObj(<<Prop("toString", Str)>>),
     BareObj(<<Prop("id", Num)>>)}

\* an array longer than any tuple schema, and the object of the `tags`
\* example: a number at index 2 of an array of strings
LongValues ==
    {Arr(<<Str, Num, Num>>),
     Obj(<<Prop("tags", Arr(<<Str, Str, Num>>))>>)}

Values == Atoms \cup ArrayValues \cup ObjectValues \cup NestedValues \cup LongValues

PrimitiveSchemas == {SchemaBuilder_string, SchemaBuilder_number, SchemaBuilder_boolean}

ValidatorOptions ==
    {<<>>, [validator |-> "isString"], [validator |-> "never"],
     [validator |-> "asyncIsString"]}

InnerOptions == {<<>>, [innerSchema |-> SchemaBuilder_string]}

CustomSchemas ==
    {SchemaBuilder_custom("email", v @@ n) : v \in ValidatorOptions, n \in InnerOptions}

ItemSchemas ==
    {SchemaBuilder_string, SchemaBuilder_number,
     SchemaBuilder_custom("email", [validator |-> "isString"])}

LengthOptions ==
    {<<>>, [minItems |-> 1], [maxItems |-> 1], [minItems |-> 1, maxItems |-> 1]}

ArraySchemas ==
    {SchemaBuilder_array(items, o) :
        items \in SeqsUpTo(ItemSchemas, MaxLen), o \in LengthOptions}

\* the schema each property name is declared with
DeclaredAs(k) == IF k = "id" THEN SchemaBuilder_number ELSE SchemaBuilder_string

PropertyLists == {[i \in 1..Len(ks) |-> Prop(ks[i], DeclaredAs(ks[i]))] : ks \in KeyLists}

RequiredOptions ==
    {<<>>, [required |-> <<>>], [required |-> <<"id", "name">>]}
    \cup {[required |-> <<k>>] : k \in PropertyNames}

AdditionalOptions == {<<>>, [additionalProperties |-> TRUE]}

ObjectSchemas ==
    {SchemaBuilder_object(ps, r @@ a) :
        ps \in PropertyLists, r \in RequiredOptions, a \in AdditionalOptions}

NestedSchemas ==
    {SchemaBuilder_array(<<SchemaBuilder_array(<<SchemaBuilder_number>>, <<>>)>>, <<>>),
     SchemaBuilder_array(<<SchemaBuilder_string,
                           SchemaBuilder_array(<<SchemaBuilder_string>>, <<>>)>>, <<>>),
     SchemaBuilder_object(<<Prop("id", SchemaBuilder_array(<<SchemaBuilder_string>>, <<>>))>>,
                          <<>>),
     SchemaBuilder_object(
        <<Prop("id", SchemaBuilder_object(<<Prop("name", SchemaBuilder_string)>>, <<>>)),
          Prop("name", SchemaBuilder_custom("email", [validator |-> "never"]))>>,
        [required |-> <<"id">>]),
     SchemaBuilder_custom("list",
        [validator |-> "never",
         innerSchema |-> SchemaBuilder_array(
            <<SchemaBuilder_custom("email", [validator |-> "never"])>>, <<>>)])}

\* { tags: string[] }, and a pair inside an object inside a list
TagSchemas ==
    {SchemaBuilder_object(
        <<Prop("tags", SchemaBuilder_array(<<SchemaBuilder_string>>, <<>>))>>, <<>>),
     SchemaBuilder_array(
        <<SchemaBuilder_object(
            <<Prop("tags", SchemaBuilder_array(
                <<SchemaBuilder_string, SchemaBuilder_string>>, <<>>))>>, <<>>)>>, <<>>)}

Schemas ==
    PrimitiveSchemas \cup CustomSchemas \cup ArraySchemas \cup ObjectSchemas
    \cup NestedSchemas \cup TagSchemas

(***************************************************************************)
(* SpecValidator: one value and one schema, validated by the synchronous   *)
(* validator and by the asynchronous one (its promise awaited).            *)
(***************************************************************************)
InitValidator ==
    /\ types = InitialTypes
    /\ pc = "validate"
    /\ args \in [value : Values, schema : Schemas]
    /\ result = <<>>

ValidateValue ==
    /\ pc = "validate"
    /\ ~Has(result, "sync")
    /\ result' = result @@ [sync |-> validateValue(args.value, args.schema)]
    /\ UNCHANGED <<types, pc, args>>

ValidateValueAsync ==
    /\ pc = "validate"
    /\ ~Has(result, "async")
    /\ result' = result @@ [async |-> Async_validateValue(args.value, args.schema)]
    /\ UNCHANGED <<types, pc, args>>

NextValidator == ValidateValue \/ ValidateValueAsync

SpecValidator == InitValidator /\ [][NextValidator]_vars

(***************************************************************************)
(* Properties of the validators (SpecValidator).                           *)
(***************************************************************************)
StartsWith(str, prefix) ==
    Len(str) >= Len(prefix) /\ SubSeq(str, 1, Len(prefix)) = prefix

\* the results computed so far for (args.value, args.schema)
ValidationResults == IF pc = "validate" THEN Range(result) ELSE {}

OwnKeys(v) == KeySet(v.own)

IsObjectValue(v) == v.t = "object"

MissingMessage(k) == "Missing required property: '" \o k \o "'"

UnexpectedMessage(k) == "Unexpected property: '" \o k \o "'"

CustomFailedMessage(typeName) == "Custom validation failed for type: " \o typeName

IsUnexpectedError(e) == StartsWith(e, "Unexpected property: '")

DeclaredKeys(schema) == KeySet(schema.properties.own)

RequiredNames(schema) == IF Has(schema, "required") THEN Range(schema.required) ELSE {}

AllowsAdditional(schema) ==
    Has(schema, "additionalProperties") /\ schema.additionalProperties

\* args.schema is a custom schema whose validator answers false for args.value
C1_ValidatorRejects ==
    /\ pc = "validate"
    /\ args.schema.kind = "custom"
    /\ Has(args.schema, "validator")
    /\ Await(UserValidator(args.schema.validator, args.value)) = False

\* C1: a custom schema built by SchemaBuilder.custom with a validator, and a
\* value for which that validator yields false: the result is invalid and
\* its errors contain 'Custom validation failed for type: {typeName}', in
\* the synchronous validator as in the asynchronous one.
C1_CustomValidatorFailureReported ==
    C1_ValidatorRejects =>
        \A r \in ValidationResults :
            /\ ~r.isValid
            /\ CustomFailedMessage(args.schema.typeName) \in Range(r.errors)

\* What the code does in C1's case: the asynchronous validator, which awaits
\* the validator's promise, reports the failure.
C1_AsyncValidatorFailureReported ==
    (C1_ValidatorRejects /\ Has(result, "async")) =>
        /\ ~result.async.isValid
        /\ CustomFailedMessage(args.schema.typeName) \in Range(result.async.errors)

\* C3: for an object schema and an object value, 'Missing required
\* property' is emitted for exactly the names of `required` that are not
\* own keys of the value; an inherited name counts as missing.
C3_MissingExactlyForAbsentOwnKeys ==
    (pc = "validate" /\ args.schema.kind = "object" /\ IsObjectValue(args.value)) =>
        \A r \in ValidationResults : \A k \in PropertyNames :
            MissingMessage(k) \in Range(r.errors)
                <=> (k \in RequiredNames(args.schema) /\ k \notin OwnKeys(args.value))

\* What the code does in C3's case: the error is emitted for exactly the
\* required names for which `name in value` is false.
C3_MissingExactlyForNamesNotInValue ==
    (pc = "validate" /\ args.schema.kind = "object" /\ IsObjectValue(args.value)) =>
        \A r \in ValidationResults : \A k \in PropertyNames :
            MissingMessage(k) \in Range(r.errors)
                <=> (k \in RequiredNames(args.schema) /\ ~In(k, args.value))

\* C5: for a primitive schema, isValid is (typeof v = schema.type and not
\* (schema.type = 'number' and v is NaN)); NaN under a number schema gives
\* exactly 'Number value cannot be NaN', any other mismatch exactly
\* 'Expected {expected}, got {actual}'.
C5_PrimitiveVerdict ==
    (pc = "validate" /\ args.schema.kind = "primitive") =>
        \A r \in ValidationResults :
            LET v == args.value
                type == args.schema.type
                nan == type = "number" /\ v = NaNValue
            IN  /\ r.isValid = (TypeOf(v) = type /\ ~nan)
                /\ nan => r.errors = <<"Number value cannot be NaN">>
                /\ (~nan /\ TypeOf(v) # type) =>
                        r.errors = <<"Expected " \o type \o ", got " \o TypeOf(v)>>

\* NaN was validated against the number schema and rejected as NaN
C5_Witness ==
    /\ pc = "validate"
    /\ args.schema = SchemaBuilder_number
    /\ args.value = NaNValue
    /\ Has(result, "sync")
    /\ result.sync.errors = <<"Number value cannot be NaN">>

\* C6: an object schema whose `required` holds a name that is no key of
\* `properties`, additionalProperties not true: every value is invalid;
\* an object value without the name gets 'Missing required property' for
\* it, one with the name gets 'Unexpected property' for it.
C6_UndeclaredRequiredNeverValid ==
    (pc = "validate" /\ args.schema.kind = "object" /\ ~AllowsAdditional(args.schema)) =>
        \A name \in RequiredNames(args.schema) \ KeySet(args.schema.properties.own) :
            \A r \in ValidationResults :
                /\ ~r.isValid
                /\ (IsObjectValue(args.value) /\ name \notin OwnKeys(args.value)) =>
                        MissingMessage(name) \in Range(r.errors)
                /\ (IsObjectValue(args.value) /\ name \in OwnKeys(args.value)) =>
                        UnexpectedMessage(name) \in Range(r.errors)

\* What the code does in C6's case: the claim holds of every required,
\* undeclared name that the value does not inherit.
C6_HoldsForNamesNotInherited ==
    (pc = "validate" /\ args.schema.kind = "object" /\ ~AllowsAdditional(args.schema)) =>
        \A name \in RequiredNames(args.schema) \ KeySet(args.schema.properties.own) :
            \A r \in ValidationResults :
                (IsObjectValue(args.value) => name \notin KeySet(Inherited(args.value))) =>
                    /\ ~r.isValid
                    /\ (IsObjectValue(args.value) /\ name \notin OwnKeys(args.value)) =>
                            MissingMessage(name) \in Range(r.errors)
                    /\ (IsObjectValue(args.value) /\ name \in OwnKeys(args.value)) =>
                            UnexpectedMessage(name) \in Range(r.errors)

\* one 'Unexpected property' message for each own key of args.value that
\* args.schema does not declare, in key order; none when
\* additionalProperties is true
C7_ExpectedUnexpected ==
    IF AllowsAdditional(args.schema) THEN <<>>
    ELSE LET extra(k) == k \notin KeySet(args.schema.properties.own)
             keys == SelectSeq(ObjectKeys(args.value), extra)
         IN  [i \in 1..Len(keys) |-> UnexpectedMessage(keys[i])]

C8_SyncEqualsAsync ==
    (pc = "validate" /\ Has(result, "sync") /\ Has(result, "async")) =>
        result.sync = result.async

\* a schema with a validator at no position
RECURSIVE HasNoValidator(_)
HasNoValidator(schema) ==
    CASE schema.kind = "primitive" -> TRUE
      [] schema.kind = "array" ->
            \A i \in 1..Len(schema.items) : HasNoValidator(schema.items[i])
      [] schema.kind = "object" ->
            \A i \in 1..Len(schema.properties.own) :
                HasNoValidator(schema.properties.own[i].val)
      [] schema.kind = "custom" ->
            /\ ~Has(schema, "validator")
            /\ Has(schema, "innerSchema") => HasNoValidator(schema.innerSchema)

\* What the code does in C8's case: the two validators agree on every
\* schema that holds no validator.
C8_SyncEqualsAsyncWithoutValidators ==
    (pc = "validate" /\ Has(result, "sync") /\ Has(result, "async")
        /\ HasNoValidator(args.schema)) =>
        result.sync = result.async

(***************************************************************************)
(* SpecAnyKind: the validators applied to schemas that may hold a schema   *)
(* of unknown kind at some position.                                       *)
(***************************************************************************)
UnknownKindSchemas ==
    {OddSchema,
     SchemaBuilder_array(<<OddSchema>>, <<>>),
     SchemaBuilder_array(<<SchemaBuilder_string, OddSchema>>, <<>>),
     SchemaBuilder_array(<<OddSchema, SchemaBuilder_string>>, [minItems |-> 1]),
     SchemaBuilder_object(<<Prop("id", OddSchema)>>, <<>>),
     SchemaBuilder_object(<<Prop("name", SchemaBuilder_number), Prop("id", OddSchema)>>,
                          [required |-> <<"name">>]),
     SchemaBuilder_object(<<Prop("toString", OddSchema)>>, <<>>),
     SchemaBuilder_custom("email", [innerSchema |-> OddSchema]),
     SchemaBuilder_custom("email", [validator |-> "never", innerSchema |-> OddSchema]),
     SchemaBuilder_array(
        <<SchemaBuilder_object(<<Prop("id", OddSchema)>>, <<>>)>>, <<>>)}

InitAnyKind ==
    /\ types = InitialTypes
    /\ pc = "validate"
    /\ args \in [value : Values, schema : Schemas \cup UnknownKindSchemas]
    /\ result = <<>>

SpecAnyKind == InitAnyKind /\ [][NextValidator]_vars

\* the kinds of the schemas that validating value against schema comes to:
\* the schema itself; the item schema of each element it pairs one with;
\* the schema of each declared property for which `key in value` holds;
\* the inner schema of a custom schema
RECURSIVE ReachedKinds(_, _)
ReachedKinds(value, schema) ==
    {Kind(schema)} \cup
    CASE Kind(schema) = "array" /\ IsArray(value) /\ Has(schema, "items") ->
            LET n == Len(value.elems)
                m == Len(schema.items)
            IN  IF m = 1
                THEN UNION {ReachedKinds(value.elems[i], schema.items[1]) : i \in 1..n}
                ELSE UNION {ReachedKinds(value.elems[i], schema.items[i]) :
                                i \in {j \in 1..m : j <= n}}
      [] Kind(schema) = "object" /\ IsObjectValue(value) ->
            UNION {ReachedKinds(Get(value, k), Lookup(schema.properties.own, k)) :
                        k \in {d \in DeclaredKeys(schema) : In(d, value)}}
      [] Kind(schema) = "custom" /\ Has(schema, "innerSchema") ->
            ReachedKinds(value, schema.innerSchema)
      [] OTHER -> {}

\* C16: validateValue never raises, whatever the value, when every schema it
\* comes to has a kind among primitive, array, object and custom: every
\* mismatch is then reported in `errors`.  It raises 'Unknown schema kind'
\* only when a schema it validates against has a kind outside that set.
C16_RaisesOnlyOnUnknownKind ==
    pc = "validate" =>
        \A r \in ValidationResults :
            LET reached == ReachedKinds(args.value, args.schema)
            IN  /\ reached \subseteq KnownKinds =>
                    /\ ~Has(r, "threw")
                    /\ r.isValid = (r.errors = <<>>)
                /\ Has(r, "threw") =>
                    \E k \in reached \ KnownKinds : r.threw = "Unknown schema kind: " \o k
                /\ Kind(args.schema) \notin KnownKinds =>
                    r = [threw |-> "Unknown schema kind: " \o Kind(args.schema)]

\* What the code does in C16's case, said the other way round: a schema of
\* unknown kind that is come to always raises.
C16_UnknownKindReachedRaises ==
    pc = "validate" =>
        \A r \in ValidationResults :
            ~(ReachedKinds(args.value, args.schema) \subseteq KnownKinds) => Has(r, "threw")

\* an element was validated against an item schema of unknown kind, and the
\* exception left validateValue
C16_Witness ==
    /\ pc = "validate"
    /\ args.schema = SchemaBuilder_array(<<OddSchema>>, <<>>)
    /\ args.value = Arr(<<Str>>)
    /\ Has(result, "sync")
    /\ result.sync = [threw |-> "Unknown schema kind: weird"]

\* the same schema and an empty array: the item schema is never come to
C16_WitnessNotReached ==
    /\ pc = "validate"
    /\ args.schema = SchemaBuilder_array(<<OddSchema>>, <<>>)
    /\ args.value = Arr(<<>>)
    /\ Has(result, "sync")
    /\ result.sync = [isValid |-> TRUE, errors |-> <<>>]

\* null against an object schema is an error, not an exception
C16_WitnessMalformedValue ==
    /\ pc = "validate"
    /\ args.schema = SchemaBuilder_object(<<Prop("id", OddSchema)>>, <<>>)
    /\ args.value = Null
    /\ Has(result, "async")
    /\ result.async = [isValid |-> FALSE, errors |-> <<"Expected object">>]

(***************************************************************************)
(* SpecCompat: the schema-level compatibility check applied to one source  *)
(* and one target schema.                                                  *)
(***************************************************************************)
CompatCustomSchemas ==
    {SchemaBuilder_custom("email", <<>>),
     SchemaBuilder_custom("email", [validator |-> "isString"]),
     SchemaBuilder_custom("email", [validator |-> "never",
                                    innerSchema |-> SchemaBuilder_string]),
     SchemaBuilder_custom("uuid", [validator |-> "isString"]),
     SchemaBuilder_custom("uuid", <<>>)}

\* an array schema written without `items`, as a cast allows
ArrayWithoutItems == [kind |-> "array"]

CompatArraySchemas ==
    {ArrayWithoutItems}
    \cup {SchemaBuilder_array(items, o) :
            items \in SeqsUpTo({SchemaBuilder_string, SchemaBuilder_number}, MaxLen),
            o \in {<<>>, [minItems |-> 1]}}

\* the same property names, `id` declared as a string instead
RetypedPropertyLists ==
    {[i \in 1..Len(ps) |->
        IF ps[i].key = "id" THEN Prop("id", SchemaBuilder_string) ELSE ps[i]] :
            ps \in PropertyLists}

CompatObjectSchemas ==
    {SchemaBuilder_object(ps, r) :
        ps \in PropertyLists \cup RetypedPropertyLists,
        r \in {<<>>} \cup {[required |-> <<k>>] : k \in PropertyNames}}
    \cup {SchemaBuilder_object(<<>>, [additionalProperties |-> TRUE,
                                     required |-> <<"id">>])}

CompatNestedSchemas ==
    {SchemaBuilder_array(<<SchemaBuilder_array(<<SchemaBuilder_number>>, <<>>)>>, <<>>),
     SchemaBuilder_array(<<SchemaBuilder_array(<<SchemaBuilder_number,
                                                 SchemaBuilder_number>>, <<>>)>>, <<>>),
     SchemaBuilder_array(<<SchemaBuilder_string,
                           SchemaBuilder_custom("email", <<>>)>>, <<>>),
     SchemaBuilder_array(<<SchemaBuilder_string,
                           SchemaBuilder_custom("uuid", <<>>)>>, <<>>),
     SchemaBuilder_object(
        <<Prop("id", SchemaBuilder_object(<<Prop("name", SchemaBuilder_string)>>,
                                          [required |-> <<"name">>]))>>, <<>>),
     SchemaBuilder_object(
        <<Prop("id", SchemaBuilder_object(<<>>, [required |-> <<"name">>]))>>, <<>>),
     SchemaBuilder_object(
        <<Prop("id", SchemaBuilder_array(<<SchemaBuilder_string>>, <<>>))>>, <<>>)}

CompatSchemas ==
    PrimitiveSchemas \cup CompatCustomSchemas \cup CompatArraySchemas
    \cup CompatObjectSchemas \cup CompatNestedSchemas

InitCompat ==
    /\ types = InitialTypes
    /\ pc = "compat"
    /\ args \in [source : CompatSchemas, target : CompatSchemas]
    /\ result = <<>>

AreSchemasCompatible ==
    /\ pc = "compat"
    /\ ~Has(result, "compatible")
    /\ result' = [compatible |-> areSchemasCompatible(args.source, args.target)]
    /\ UNCHANGED <<types, pc, args>>

NextCompat == AreSchemasCompatible

SpecCompat == InitCompat /\ [][NextCompat]_vars

(***************************************************************************)
(* Properties of the compatibility check (SpecCompat).                     *)
(***************************************************************************)
CompatChecked == pc = "compat" /\ Has(result, "compatible")

\* a schema with a custom schema at no position
RECURSIVE IsNonCustom(_)
IsNonCustom(schema) ==
    CASE schema.kind = "primitive" -> TRUE
      [] schema.kind = "array" ->
            Has(schema, "items") => \A i \in 1..Len(schema.items) : IsNonCustom(schema.items[i])
      [] schema.kind = "object" ->
            \A i \in 1..Len(schema.properties.own) :
                IsNonCustom(schema.properties.own[i].val)
      [] OTHER -> FALSE

\* C4: the schema-level check is reflexive on every non-custom schema
\* (primitive, array, tuple, empty tuple, object, of any nesting), also on
\* object schemas whose `required` names are no keys of `properties`.
C4_Reflexive ==
    (CompatChecked /\ args.source = args.target /\ IsNonCustom(args.source)) =>
        result.compatible

\* a schema each of whose object schemas requires only names it declares
RECURSIVE RequiresOnlyDeclared(_)
RequiresOnlyDeclared(schema) ==
    CASE schema.kind = "array" ->
            Has(schema, "items") =>
                \A i \in 1..Len(schema.items) : RequiresOnlyDeclared(schema.items[i])
      [] schema.kind = "object" ->
            /\ RequiredNames(schema) \subseteq KeySet(schema.properties.own)
            /\ \A i \in 1..Len(schema.properties.own) :
                    RequiresOnlyDeclared(schema.properties.own[i].val)
      [] OTHER -> TRUE

\* What the code does in C4's case: the check is reflexive on the schemas
\* whose object schemas require only names they declare.
C4_ReflexiveWhenRequiredDeclared ==
    (CompatChecked /\ args.source = args.target /\ RequiresOnlyDeclared(args.source)) =>
        result.compatible

\* C9: for object schemas, source is compatible with target iff every name
\* of target.required is a key of source.properties and the schemas of
\* every name that is a key of both `properties` are compatible; a
\* property declared on one side only never makes the two incompatible.
C9_ObjectCompatibility ==
    (CompatChecked /\ args.source.kind = "object" /\ args.target.kind = "object") =>
        result.compatible =
            (/\ RequiredNames(args.target) \subseteq DeclaredKeys(args.source)
             /\ \A k \in DeclaredKeys(args.source) \cap DeclaredKeys(args.target) :
                    areSchemasCompatible(Lookup(args.source.properties.own, k),
                                         Lookup(args.target.properties.own, k)))

\* What the code does in C9's case: the equivalence holds when every
\* property the target declares under an inherited name is declared by the
\* source too.
C9_HoldsWithoutInheritedNames ==
    (CompatChecked /\ args.source.kind = "object" /\ args.target.kind = "object"
        /\ DeclaredKeys(args.target) \cap KeySet(ObjectPrototype)
                \subseteq DeclaredKeys(args.source)) =>
        result.compatible =
            (/\ RequiredNames(args.target) \subseteq DeclaredKeys(args.source)
             /\ \A k \in DeclaredKeys(args.source) \cap DeclaredKeys(args.target) :
                    areSchemasCompatible(Lookup(args.source.properties.own, k),
                                         Lookup(args.target.properties.own, k)))

RECURSIVE HasKindMismatch(_, _)
HasKindMismatch(s, t) ==
    \/ s.kind # t.kind
    \/ /\ s.kind = "array"
       /\ Has(s, "items") /\ Has(t, "items")
       /\ Len(s.items) = Len(t.items)
       /\ \E i \in 1..Len(s.items) : HasKindMismatch(s.items[i], t.items[i])
    \/ /\ s.kind = "object"
       /\ \E k \in DeclaredKeys(s) \cap DeclaredKeys(t) :
                HasKindMismatch(Lookup(s.properties.own, k), Lookup(t.properties.own, k))

\* C11: two schemas of different kind are never compatible, at the top
\* level or at a nested position that is compared; two primitive schemas
\* are compatible iff their `type` strings are equal.
C11_KindsAndPrimitives ==
    CompatChecked =>
        /\ HasKindMismatch(args.source, args.target) => ~result.compatible
        /\ (args.source.kind = "primitive" /\ args.target.kind = "primitive") =>
                result.compatible = (args.source.type = args.target.type)

\* two object schemas that declare `id`, one as an object and one as an
\* array, were compared and found incompatible
C11_Witness ==
    /\ CompatChecked
    /\ args.source =
        SchemaBuilder_object(
            <<Prop("id", SchemaBuilder_object(<<Prop("name", SchemaBuilder_string)>>,
                                              [required |-> <<"name">>]))>>, <<>>)
    /\ args.target =
        SchemaBuilder_object(
            <<Prop("id", SchemaBuilder_array(<<SchemaBuilder_string>>, <<>>))>>, <<>>)
    /\ ~result.compatible

\* C12: two custom schemas are compatible iff their typeName strings are
\* equal, whatever validator or innerSchema either side has.
C12_CustomByNameOnly ==
    (CompatChecked /\ args.source.kind = "custom" /\ args.target.kind = "custom") =>
        result.compatible = (args.source.typeName = args.target.typeName)

\* 'email' without validator was compared with 'email' holding a validator
\* and an inner schema, and found compatible
C12_Witness ==
    /\ CompatChecked
    /\ args.source = SchemaBuilder_custom("email", <<>>)
    /\ args.target = SchemaBuilder_custom("email", [validator |-> "never",
                                                    innerSchema |-> SchemaBuilder_string])
    /\ result.compatible

\* 'email' and 'uuid' with the same validator were compared and found
\* incompatible
C12_WitnessDifferentNames ==
    /\ CompatChecked
    /\ args.source = SchemaBuilder_custom("email", [validator |-> "isString"])
    /\ args.target = SchemaBuilder_custom("uuid", [validator |-> "isString"])
    /\ ~result.compatible

(***************************************************************************)
(* SpecCompatAnyKind: the schema-level check applied to schemas that may   *)
(* be, or hold, a schema of unknown kind.                                  *)
(***************************************************************************)
CompatUnknownKindSchemas ==
    {OddSchema,
     [kind |-> "strange"],
     SchemaBuilder_array(<<OddSchema>>, <<>>),
     SchemaBuilder_array(<<SchemaBuilder_string, OddSchema>>, <<>>),
     SchemaBuilder_object(<<Prop("id", OddSchema)>>, <<>>),
     SchemaBuilder_object(<<Prop("id", OddSchema), Prop("name", SchemaBuilder_string)>>,
                          [required |-> <<"id">>])}

InitCompatAnyKind ==
    /\ types = InitialTypes
    /\ pc = "compat"
    /\ args \in [source : CompatSchemas \cup CompatUnknownKindSchemas,
                  target : CompatSchemas \cup CompatUnknownKindSchemas]
    /\ result = <<>>

SpecCompatAnyKind == InitCompatAnyKind /\ [][NextCompat]_vars

\* the schema-level check comes to two schemas of the same unknown kind, at
\* the top or at a position it compares
RECURSIVE MeetsUnknownKind(_, _)
MeetsUnknownKind(s, t) ==
    \/ Kind(s) = Kind(t) /\ Kind(s) \notin KnownKinds
    \/ /\ Kind(s) = "array" /\ Kind(t) = "array"
       /\ Has(s, "items") /\ Has(t, "items")
       /\ Len(s.items) = Len(t.items)
       /\ \E i \in 1..Len(s.items) :
            /\ \A j \in 1..(i - 1) : areSchemasCompatible(s.items[j], t.items[j])
            /\ MeetsUnknownKind(s.items[i], t.items[i])

\* C17: an unrecognized schema kind met by the compatibility check aborts
\* the call with an error; no "not compatible" result is returned.
C17_UnknownKindAborts ==
    (CompatChecked /\ MeetsUnknownKind(args.source, args.target)) =>
        Has(result, "threw")

\* What the code does in C17's case: two schemas of the same unknown kind
\* fall to the `default` of the switch, which returns false; whenever either
\* schema is of unknown kind the answer is "not compatible".
C17_UnknownKindIncompatible ==
    (CompatChecked /\ (Kind(args.source) \notin KnownKinds
                        \/ Kind(args.target) \notin KnownKinds)) =>
        result = [compatible |-> FALSE]

(***************************************************************************)
(* Spec: the registry and the calls that go through it.  A call is made    *)
(* from the idle state and leaves its arguments and outcome in args and    *)
(* result until the caller returns.                                        *)
(***************************************************************************)
EmailSchema == SchemaBuilder_custom("email", [validator |-> "isString"])

UserSchema ==
    SchemaBuilder_object(<<Prop("id", SchemaBuilder_number),
                           Prop("email", EmailSchema)>>,
                         [required |-> <<"id">>])

\* the definitions callers register
Definable ==
    {TypeDefinition("email", EmailSchema),
     TypeDefinition("user", UserSchema),
     TypeDefinition("email", SchemaBuilder_string),
     TypeDefinition("string", SchemaBuilder_number),
     TypeDefinition("odd", OddSchema)}

\* the (name, schema, description) callers hand to defineType
Defined ==
    {<<"tags", SchemaBuilder_array(<<SchemaBuilder_string>>, <<>>), Undefined>>,
     <<"email", EmailSchema, Str>>,
     <<"boolean", SchemaBuilder_string, Undefined>>}

CallNames == {"string", "number", "boolean", "email", "user", "odd", "missing"}

CallValues ==
    {Str, Num, NaNValue, True, Undefined,
     Obj(<<Prop("id", Num)>>),
     Obj(<<Prop("id", Num), Prop("email", Str)>>),
     Obj(<<Prop("id", Num), Prop("email", Num)>>),
     Obj(<<Prop("email", Str)>>)}

Init ==
    /\ types = InitialTypes
    /\ pc = "idle"
    /\ args = <<>>
    /\ result = <<>>

RegisterType ==
    \E def \in Definable :
        /\ pc = "idle"
        /\ pc' = "called"
        /\ args' = [op |-> "registerType", def |-> def]
        /\ types' = registerType(types, def).types
        /\ result' = IF Has(registerType(types, def), "threw")
                     THEN [threw |-> registerType(types, def).threw]
                     ELSE <<>>

CreateTypedNode ==
    \E typeName \in CallNames, value \in CallValues :
        /\ pc = "idle"
        /\ pc' = "called"
        /\ args' = [op |-> "createTypedNode", typeName |-> typeName, value |-> value]
        /\ result' = createTypedNode(types, typeName, value)
        /\ UNCHANGED types

BundleCreateTypedNode ==
    \E typeName \in CallNames, value \in CallValues :
        /\ pc = "idle"
        /\ pc' = "called"
        /\ args' = [op |-> "bundle.createTypedNode", typeName |-> typeName,
                    value |-> value]
        /\ result' = Bundle_createTypedNode(types, typeName, value)
        /\ UNCHANGED types

DefineType ==
    \E d \in Defined :
        LET defined == defineType(types, d[1], d[2], d[3])
        IN  /\ pc = "idle"
            /\ pc' = "called"
            /\ args' = [op |-> "defineType",
                        def |-> [name |-> d[1], schema |-> d[2], description |-> d[3]]]
            /\ types' = defined.types
            /\ result' = IF Has(defined, "threw")
                         THEN [threw |-> defined.threw]
                         ELSE [returned |-> defined.returned]

TryCreateNode ==
    \E typeName \in CallNames, value \in CallValues :
        /\ pc = "idle"
        /\ pc' = "called"
        /\ args' = [op |-> "tryCreateNode", typeName |-> typeName, value |-> value]
        /\ result' = tryCreateNode(types, typeName, value)
        /\ UNCHANGED types

BundleTryCreateNode ==
    \E typeName \in CallNames, value \in CallValues :
        /\ pc = "idle"
        /\ pc' = "called"
        /\ args' = [op |-> "bundle.tryCreateNode", typeName |-> typeName,
                    value |-> value]
        /\ result' = Bundle_tryCreateNode(types, typeName, value)
        /\ UNCHANGED types

AreCompatible ==
    \E sourceTypeName \in CallNames, targetTypeName \in CallNames :
        /\ pc = "idle"
        /\ pc' = "called"
        /\ args' = [op |-> "areCompatible", source |-> sourceTypeName,
                    target |-> targetTypeName]
        /\ result' = [returned |-> areCompatible(types, sourceTypeName, targetTypeName)]
        /\ UNCHANGED types

CheckCompatibility ==
    \E sourceTypeName \in CallNames, targetTypeName \in CallNames :
        /\ pc = "idle"
        /\ pc' = "called"
        /\ args' = [op |-> "checkCompatibility", source |-> sourceTypeName,
                    target |-> targetTypeName]
        /\ result' = [returned |->
                        checkCompatibility(types, sourceTypeName, targetTypeName)]
        /\ UNCHANGED types

IsNodeCompatible ==
    \E type \in CallNames, targetTypeName \in CallNames :
        /\ pc = "idle"
        /\ pc' = "called"
        /\ args' = [op |-> "isNodeCompatible", node |-> [type |-> type, value |-> Str],
                    target |-> targetTypeName]
        /\ result' = [returned |->
                        isNodeCompatible(types, [type |-> type, value |-> Str],
                                         targetTypeName)]
        /\ UNCHANGED types

GetType ==
    \E typeName \in CallNames :
        /\ pc = "idle"
        /\ pc' = "called"
        /\ args' = [op |-> "getType", typeName |-> typeName]
        /\ result' = [returned |-> IF hasType(types, typeName)
                                   THEN getType(types, typeName) ELSE Undefined]
        /\ UNCHANGED types

HasType ==
    \E typeName \in CallNames :
        /\ pc = "idle"
        /\ pc' = "called"
        /\ args' = [op |-> "hasType", typeName |-> typeName]
        /\ result' = [returned |-> hasType(types, typeName)]
        /\ UNCHANGED types

GetTypeNames ==
    /\ pc = "idle"
    /\ pc' = "called"
    /\ args' = [op |-> "getTypeNames"]
    /\ result' = [returned |-> getTypeNames(types)]
    /\ UNCHANGED types

\* SchemaValidator.validateValue called with a schema of the caller's
ValidateValueCall ==
    \E def \in Definable, value \in CallValues :
        /\ pc = "idle"
        /\ pc' = "called"
        /\ args' = [op |-> "validateValue", value |-> value, schema |-> def.schema]
        /\ result' = LET validation == validateValue(value, def.schema)
                     IN  IF Has(validation, "threw") THEN validation
                         ELSE [returned |-> validation]
        /\ UNCHANGED types

ValidateTypeValue ==
    \E typeName \in CallNames, value \in CallValues :
        /\ pc = "idle"
        /\ pc' = "called"
        /\ args' = [op |-> "validateTypeValue", typeName |-> typeName, value |-> value]
        /\ result' = validateTypeValue(types, typeName, value)
        /\ UNCHANGED types

\* the call returns (or raises) to its caller, which goes on
Return ==
    /\ pc = "called"
    /\ pc' = "idle"
    /\ args' = <<>>
    /\ result' = <<>>
    /\ UNCHANGED types

Next ==
    \/ RegisterType
    \/ DefineType
    \/ CreateTypedNode
    \/ BundleCreateTypedNode
    \/ TryCreateNode
    \/ BundleTryCreateNode
    \/ AreCompatible
    \/ CheckCompatibility
    \/ IsNodeCompatible
    \/ GetType
    \/ HasType
    \/ GetTypeNames
    \/ ValidateValueCall
    \/ ValidateTypeValue
    \/ Return

Spec == Init /\ [][Next]_vars

(***************************************************************************)
(* Properties of the factory (Spec).                                       *)
(***************************************************************************)
\* what the schema asks of a value: every primitive, array and object
\* constraint met and every custom validator answering true
RECURSIVE Satisfies(_, _)
Satisfies(v, schema) ==
    CASE schema.kind = "primitive" ->
            TypeOf(v) = schema.type /\ ~(schema.type = "number" /\ IsNaN(v))
      [] schema.kind = "array" ->
            /\ IsArray(v)
            /\ Has(schema, "minItems") => Len(v.elems) >= schema.minItems
            /\ Has(schema, "maxItems") => Len(v.elems) <= schema.maxItems
            /\ IF Len(schema.items) = 1
               THEN \A i \in 1..Len(v.elems) : Satisfies(v.elems[i], schema.items[1])
               ELSE /\ Len(v.elems) = Len(schema.items)
                    /\ \A i \in 1..Len(v.elems) : Satisfies(v.elems[i], schema.items[i])
      [] schema.kind = "object" ->
            /\ IsObjectValue(v)
            /\ RequiredNames(schema) \subseteq OwnKeys(v)
            /\ \A k \in DeclaredKeys(schema) \cap OwnKeys(v) :
                    Satisfies(Lookup(v.own, k), Lookup(schema.properties.own, k))
            /\ AllowsAdditional(schema) \/ OwnKeys(v) \subseteq DeclaredKeys(schema)
      [] schema.kind = "custom" ->
            /\ Has(schema, "validator") =>
                    Await(UserValidator(schema.validator, v)) = True
            /\ Has(schema, "innerSchema") => Satisfies(v, schema.innerSchema)

\* C2: createTypedNode(typeName, value) returns a node only if typeName is
\* registered and the value satisfies the registered schema; no node is
\* produced for a value its type's schema rejects.
C2_NodeOnlyForValidValue ==
    (pc = "called" /\ args.op \in {"createTypedNode", "bundle.createTypedNode"}
        /\ Has(result, "node")) =>
        /\ result.node = [type |-> args.typeName, value |-> args.value]
        /\ hasType(types, args.typeName)
        /\ Satisfies(args.value, getType(types, args.typeName).schema)

\* What the code does in C2's case: the bundle's createTypedNode, awaiting
\* the asynchronous validator, returns a node only for a valid value, and
\* both builds raise 'Unknown type' for a name the registry lacks.
C2_BundleNodeOnlyForValidValue ==
    (pc = "called" /\ args.op = "bundle.createTypedNode" /\ Has(result, "node")) =>
        /\ hasType(types, args.typeName)
        /\ Satisfies(args.value, getType(types, args.typeName).schema)

C2_UnknownTypeRaised ==
    (pc = "called" /\ args.op \in {"createTypedNode", "bundle.createTypedNode"}
        /\ ~hasType(types, args.typeName)) =>
        /\ Has(result, "threw")
        /\ StartsWith(result.threw, "Unknown type: " \o args.typeName)

\* C13: for every type name n, in every registry state and whether or not
\* n is registered, areCompatible(n, n) returns true and
\* checkCompatibility(n, n) returns isCompatible = true with no reason.
C13_SameNameCompatible ==
    (pc = "called" /\ args.op \in {"areCompatible", "checkCompatibility"}
        /\ args.source = args.target) =>
        IF args.op = "areCompatible"
        THEN result = [returned |-> TRUE]
        ELSE result = [returned |-> [isCompatible |-> TRUE]]

\* areCompatible and checkCompatibility were asked about a name the
\* registry lacks, against itself
C13_Witness ==
    /\ pc = "called"
    /\ args.op = "areCompatible"
    /\ args.source = "missing"
    /\ args.target = "missing"
    /\ ~hasType(types, "missing")
    /\ result.returned

C13_WitnessCheck ==
    /\ pc = "called"
    /\ args.op = "checkCompatibility"
    /\ args.source = "email"
    /\ args.target = "email"
    /\ ~hasType(types, "email")
    /\ result.returned.isCompatible

\* C14: for distinct names s and t, checkCompatibility(s, t) gives the
\* reason 'Unknown source type: s' when s is unregistered, otherwise
\* 'Unknown target type: t' when t is unregistered, otherwise 'Type
\* mismatch: s is not compatible with t' exactly when the two registered
\* schemas are incompatible; in every result, `reason` is present iff
\* isCompatible is false.
C14_CheckCompatibilityReasons ==
    (pc = "called" /\ args.op = "checkCompatibility") =>
        LET s == args.source
            t == args.target
            r == result.returned
        IN  /\ Has(r, "reason") <=> ~r.isCompatible
            /\ (s # t /\ ~hasType(types, s)) =>
                    /\ ~r.isCompatible
                    /\ r.reason = "Unknown source type: " \o s
            /\ (s # t /\ hasType(types, s) /\ ~hasType(types, t)) =>
                    /\ ~r.isCompatible
                    /\ r.reason = "Unknown target type: " \o t
            /\ (s # t /\ hasType(types, s) /\ hasType(types, t)) =>
                    LET compatible ==
                            areSchemasCompatible(getType(types, s).schema,
                                                 getType(types, t).schema)
                    IN  /\ r.isCompatible = compatible
                        /\ ~compatible =>
                                r.reason = "Type mismatch: " \o s
                                           \o " is not compatible with " \o t

\* two distinct unregistered names were checked: the source is reported
C14_Witness ==
    /\ pc = "called"
    /\ args.op = "checkCompatibility"
    /\ args.source = "missing"
    /\ args.target = "email"
    /\ ~hasType(types, "email")
    /\ result.returned =
        [isCompatible |-> FALSE, reason |-> "Unknown source type: missing"]

\* two registered types with incompatible schemas were checked
C14_WitnessMismatch ==
    /\ pc = "called"
    /\ args.op = "checkCompatibility"
    /\ args.source = "email"
    /\ args.target = "string"
    /\ hasType(types, "email")
    /\ result.returned =
        [isCompatible |-> FALSE,
         reason |-> "Type mismatch: email is not compatible with string"]

\* two registered types with distinct names and compatible schemas
C14_WitnessCompatible ==
    /\ pc = "called"
    /\ args.op = "checkCompatibility"
    /\ args.source = "string"
    /\ args.target = "email"
    /\ hasType(types, "email")
    /\ result.returned = [isCompatible |-> TRUE]

\* C15: registerType(def), and defineType through it, raises whenever
\* def.name is registered already, the three built-in names included, and
\* then leaves the registry as it was; for a new name it adds that one
\* entry, and getType(def.name) returns def afterwards.
C15_RegisterType ==
    [][(pc = "idle" /\ pc' = "called" /\ args'.op \in {"registerType", "defineType"}) =>
        LET def == args'.def
        IN  IF def.name \in TypeNames(types)
            THEN /\ types' = types
                 /\ Has(result', "threw")
                 /\ result'.threw = "Type '" \o def.name \o "' is already registered"
            ELSE /\ ~Has(result', "threw")
                 /\ Len(types') = Len(types) + 1
                 /\ SubSeq(types', 1, Len(types)) = types
                 /\ hasType(types', def.name)
                 /\ getType(types', def.name) = def
                 /\ args'.op = "defineType" => result'.returned = def]_vars

\* registering under the built-in name 'string' raised and changed nothing
C15_Witness ==
    /\ pc = "called"
    /\ args.op = "registerType"
    /\ args.def.name = "string"
    /\ result = [threw |-> "Type 'string' is already registered"]
    /\ types = InitialTypes

\* defineType registered 'tags' in the initial registry
C15_WitnessDefined ==
    /\ pc = "called"
    /\ args.op = "defineType"
    /\ args.def.name = "tags"
    /\ Has(result, "returned")
    /\ types = Append(InitialTypes, args.def)

\* C18: tryCreateNode never raises: it returns {success: true, node}
\* exactly when createTypedNode returns a node for the same typeName and
\* value in the same registry state, and otherwise {success: false, error}
\* with the failure message; it does not change the registry.
C18_TryCreateNode ==
    [][(pc = "idle" /\ pc' = "called"
            /\ args'.op \in {"tryCreateNode", "bundle.tryCreateNode"}) =>
        LET created ==
                IF args'.op = "tryCreateNode"
                THEN createTypedNode(types, args'.typeName, args'.value)
                ELSE Bundle_createTypedNode(types, args'.typeName, args'.value)
        IN  /\ types' = types
            /\ ~Has(result', "threw")
            /\ Has(result', "returned")
            /\ result'.returned.success = Has(created, "node")
            /\ Has(created, "node") =>
                    result'.returned = [success |-> TRUE, node |-> created.node]
            /\ ~Has(created, "node") =>
                    result'.returned = [success |-> FALSE, error |-> created.threw]]_vars

\* tryCreateNode was called with an unregistered name and returned the
\* 'Unknown type' message
C18_Witness ==
    /\ pc = "called"
    /\ args.op = "tryCreateNode"
    /\ args.typeName = "missing"
    /\ Has(result, "returned")
    /\ ~result.returned.success
    /\ StartsWith(result.returned.error, "Unknown type: missing")

\* tryCreateNode returned the joined validation errors
C18_WitnessValidation ==
    /\ pc = "called"
    /\ args.op = "tryCreateNode"
    /\ args.typeName = "user"
    /\ args.value = Obj(<<Prop("email", Str)>>)
    /\ hasType(types, "user")
    /\ result.returned =
        [success |-> FALSE,
         error |-> "Schema validation failed for type 'user': "
                   \o "Missing required property: 'id'"]

\* tryCreateNode returned a node
C18_WitnessNode ==
    /\ pc = "called"
    /\ args.op = "bundle.tryCreateNode"
    /\ args.typeName = "number"
    /\ result.returned = [success |-> TRUE, node |-> [type |-> "number", value |-> Num]]

\* tryCreateNode caught the exception of an unknown schema kind
C18_WitnessUnknownKind ==
    /\ pc = "called"
    /\ args.op = "tryCreateNode"
    /\ args.typeName = "odd"
    /\ hasType(types, "odd")
    /\ result.returned = [success |-> FALSE, error |-> "Unknown schema kind: weird"]

(***************************************************************************)
(* SpecRepeat: one value and one schema validated, then validated again    *)
(* after any number of registrations, lookups, compatibility checks and    *)
(* other validations.  `result` keeps the first and the latest verdict and *)
(* the outcome of the latest call made in between.                         *)
(***************************************************************************)
RepeatValues ==
    {Str, NaNValue, Arr(<<Str, Num>>), Obj(<<Prop("id", Num)>>),
     Obj(<<Prop("id", Num), Prop("email", Num)>>)}

RepeatSchemas ==
    {SchemaBuilder_number, EmailSchema, UserSchema,
     SchemaBuilder_custom("email", [validator |-> "never",
                                    innerSchema |-> SchemaBuilder_string]),
     SchemaBuilder_array(<<EmailSchema>>, [maxItems |-> 1]),
     SchemaBuilder_object(<<Prop("id", SchemaBuilder_string)>>,
                          [required |-> <<"toString", "name">>])}

InitRepeat ==
    /\ types = InitialTypes
    /\ pc = "repeat"
    /\ args \in [value : RepeatValues, schema : RepeatSchemas]
    /\ result = <<>>

ValidateFirst ==
    /\ pc = "repeat"
    /\ ~Has(result, "first")
    /\ result' = [first |-> validateValue(args.value, args.schema)] @@ result
    /\ UNCHANGED <<types, pc, args>>

ValidateAgain ==
    /\ pc = "repeat"
    /\ Has(result, "first")
    /\ result' = [again |-> validateValue(args.value, args.schema)] @@ result
    /\ UNCHANGED <<types, pc, args>>

RegisterBetween ==
    \E def \in Definable :
        /\ pc = "repeat"
        /\ types' = registerType(types, def).types
        /\ result' = [other |-> [registered |-> ~Has(registerType(types, def), "threw")]]
                        @@ result
        /\ UNCHANGED <<pc, args>>

ValidateBetween ==
    \E value \in RepeatValues, schema \in {args.schema, SchemaBuilder_number} :
        /\ pc = "repeat"
        /\ result' = [other |-> validateValue(value, schema)] @@ result
        /\ UNCHANGED <<types, pc, args>>

CompatBetween ==
    \E sourceTypeName \in {"email", "user"}, targetTypeName \in {"email", "string"} :
        /\ pc = "repeat"
        /\ result' = [other |-> checkCompatibility(types, sourceTypeName, targetTypeName)]
                        @@ result
        /\ UNCHANGED <<types, pc, args>>

LookupBetween ==
    \E typeName \in {"email", "user", "missing"} :
        /\ pc = "repeat"
        /\ result' = [other |-> [name |-> typeName, found |-> hasType(types, typeName)]]
                        @@ result
        /\ UNCHANGED <<types, pc, args>>

NextRepeat ==
    \/ ValidateFirst
    \/ ValidateAgain
    \/ RegisterBetween
    \/ ValidateBetween
    \/ CompatBetween
    \/ LookupBetween

SpecRepeat == InitRepeat /\ [][NextRepeat]_vars

Min(a, b) == IF a < b THEN a ELSE b

ValidateCall(value, schema) ==
    [op |-> "validateValue", value |-> value, schema |-> schema]

CompatCall(source, target) ==
    [op |-> "areSchemasCompatible", source |-> source, target |-> target]

\* the calls of validateValue that validating value against schema makes,
\* in order, as long as none raises
ValidatorCalls(value, schema) ==
    CASE Kind(schema) = "array" /\ IsArray(value) /\ Has(schema, "items") ->
            LET n == Len(value.elems)
                m == Len(schema.items)
            IN  IF m = 1
                THEN [i \in 1..n |-> ValidateCall(value.elems[i], schema.items[1])]
                ELSE [i \in 1..Min(m, n) |->
                        ValidateCall(value.elems[i], schema.items[i])]
      [] Kind(schema) = "object" /\ TypeOf(value) = "object" /\ value.t # "null"
            /\ ~IsArray(value) ->
            LET present(entry) == In(entry.key, value)
                entries == SelectSeq(schema.properties.own, present)
            IN  [i \in 1..Len(entries) |->
                    ValidateCall(Get(value, entries[i].key), entries[i].val)]
      [] Kind(schema) = "custom" /\ Has(schema, "innerSchema") ->
            <<ValidateCall(value, schema.innerSchema)>>
      [] OTHER -> <<>>

\* the calls of areSchemasCompatible that comparing source with target
\* makes, in order, as long as all answer true
CompatCalls(source, target) ==
    IF Kind(source) # Kind(target) THEN <<>>
    ELSE CASE Kind(source) = "array" ->
                IF /\ Has(source, "items") /\ Has(target, "items")
                   /\ Len(source.items) > 0
                   /\ Len(source.items) = Len(target.items)
                THEN [i \in 1..Len(source.items) |->
                        CompatCall(source.items[i], target.items[i])]
                ELSE <<>>
           [] Kind(source) = "object" ->
                IF RequiredNames(target) \subseteq Range(ObjectKeys(source.properties))
                THEN LET shared(entry) == In(entry.key, source.properties)
                         entries == SelectSeq(target.properties.own, shared)
                     IN  [i \in 1..Len(entries) |->
                            CompatCall(Get(source.properties, entries[i].key),
                                       entries[i].val)]
                ELSE <<>>
           [] OTHER -> <<>>

NestedCalls(call) ==
    IF call.op = "validateValue" THEN ValidatorCalls(call.value, call.schema)
    ELSE CompatCalls(call.source, call.target)

\* what the call returns, or raises, once the calls it makes have returned
Returns(call) ==
    IF call.op = "validateValue" THEN validateValue(call.value, call.schema)
    ELSE [returned |-> areSchemasCompatible(call.source, call.target)]

\* an activation that goes round its loop without moving on
Mutant_Resume(frame, returned) == frame

\* the activation after a nested call has returned: the loops of the
\* validator go on to the next call; the loops of areSchemasCompatible
\* return false at the first false
Resume(frame, returned) ==
    IF frame.call.op = "areSchemasCompatible" /\ ~returned.returned
    THEN [frame EXCEPT !.next = Len(NestedCalls(frame.call)) + 1]
    ELSE [frame EXCEPT !.next = @ + 1]

StepValues ==
    NestedValues \cup {Str, Arr(<<Str, Num>>), Obj(<<Prop("id", Num), Prop("name", Str)>>)}

StepSchemas ==
    NestedSchemas \cup UnknownKindSchemas
    \cup {SchemaBuilder_number, EmailSchema, UserSchema,
          SchemaBuilder_array(<<SchemaBuilder_string, SchemaBuilder_number>>, <<>>),
          SchemaBuilder_object(<<Prop("toString", SchemaBuilder_string)>>, <<>>)}

StepCompatSchemas ==
    CompatNestedSchemas \cup CompatUnknownKindSchemas
    \cup {SchemaBuilder_string, EmailSchema, ArrayWithoutItems,
          SchemaBuilder_array(<<SchemaBuilder_string, SchemaBuilder_number>>, <<>>),
          SchemaBuilder_array(<<SchemaBuilder_string, SchemaBuilder_string>>, <<>>),
          SchemaBuilder_object(<<>>, <<>>),
          SchemaBuilder_object(<<Prop("toString", SchemaBuilder_string)>>, <<>>)}

InitSteps ==
    /\ types = InitialTypes
    /\ pc = "run"
    /\ args \in {ValidateCall(v, s) : v \in StepValues, s \in StepSchemas}
                \cup {CompatCall(s, t) : s \in StepCompatSchemas, t \in StepCompatSchemas}
    /\ result = [stack |-> <<[call |-> args, next |-> 1]>>]

\* the innermost activation makes its next nested call
Call ==
    /\ pc = "run"
    /\ LET top == result.stack[Len(result.stack)]
       IN  /\ top.next <= Len(NestedCalls(top.call))
           /\ result' = [stack |-> Append(result.stack,
                            [call |-> NestedCalls(top.call)[top.next], next |-> 1])]
    /\ UNCHANGED <<types, pc, args>>

\* validateValue met with the default branch of its switch
Throws(call) == call.op = "validateValue" /\ Kind(call.schema) \notin KnownKinds

\* the innermost activation has made its calls and returns to its caller
ReturnToCaller ==
    /\ pc = "run"
    /\ Len(result.stack) > 1
    /\ LET depth == Len(result.stack)
           top == result.stack[depth]
       IN  /\ top.next > Len(NestedCalls(top.call))
           /\ ~Throws(top.call)
           /\ result' = [stack |->
                    [i \in 1..(depth - 1) |->
                        IF i = depth - 1
                        THEN Resume(result.stack[i], Returns(top.call))
                        ELSE result.stack[i]]]
    /\ UNCHANGED <<types, pc, args>>

\* the innermost activation raises: no caller catches, so all are left
Raise ==
    /\ pc = "run"
    /\ LET top == result.stack[Len(result.stack)]
       IN  /\ Throws(top.call)
           /\ result' = [stack |-> <<>>,
                         threw |-> "Unknown schema kind: " \o Kind(top.call.schema)]
    /\ pc' = "done"
    /\ UNCHANGED <<types, args>>

\* the outermost activation returns
Finish ==
    /\ pc = "run"
    /\ Len(result.stack) = 1
    /\ LET top == result.stack[1]
       IN  /\ top.next > Len(NestedCalls(top.call))
           /\ ~Throws(top.call)
           /\ result' = [stack |-> <<>>, returned |-> Returns(top.call)]
    /\ pc' = "done"
    /\ UNCHANGED <<types, args>>

NextSteps == Call \/ ReturnToCaller \/ Raise \/ Finish

\* a call, once made, runs on: the code is synchronous (the asynchronous
\* build awaits each nested call before the next)
SpecSteps == InitSteps /\ [][NextSteps]_vars /\ WF_vars(NextSteps)

\* the nesting depth of a schema: 1 for a schema that holds none
RECURSIVE Depth(_)
Depth(schema) ==
    LET Max(S) == IF S = {} THEN 0 ELSE CHOOSE d \in S : \A e \in S : e <= d
    IN  CASE Kind(schema) = "array" /\ Has(schema, "items") ->
                1 + Max({Depth(schema.items[i]) : i \in 1..Len(schema.items)})
          [] Kind(schema) = "object" ->
                1 + Max({Depth(schema.properties.own[i].val) :
                            i \in 1..Len(schema.properties.own)})
          [] Kind(schema) = "custom" /\ Has(schema, "innerSchema") ->
                1 + Depth(schema.innerSchema)
          [] OTHER -> 1

\* the activations are never more than the nesting depth of the schema
\* that drives the descent
DepthBounded ==
    pc = "run" =>
        Len(result.stack) <=
            IF args.op = "validateValue" THEN Depth(args.schema) ELSE Depth(args.target)

\* C20: the schema-level compatibility check and validateValue terminate
\* for every finite, non-cyclic schema tree and finite value, and the
\* recursion is never deeper than the schema is nested.
C20_TerminatesWithinDepth == []DepthBounded /\ <>(pc = "done")

\* What the code computes at the end of the run is what the call returns.
C20_RunReturns ==
    pc = "done" =>
        IF Has(result, "threw") THEN Returns(args) = [threw |-> result.threw]
        ELSE result.returned = Returns(args)

\* a validation three activations deep has returned
C20_Witness ==
    /\ pc = "done"
    /\ args.op = "validateValue"
    /\ Depth(args.schema) = 3
    /\ args.value = Obj(<<Prop("id", Obj(<<Prop("name", Num)>>)), Prop("name", Str)>>)
    /\ Has(result, "returned")
    /\ ~result.returned.isValid

\* the descent is as deep as the schema is nested
C20_WitnessDeepest ==
    /\ pc = "run"
    /\ args.op = "validateValue"
    /\ Len(result.stack) = 3
    /\ Depth(args.schema) = 3

\* a comparison of two nested schemas has returned
C20_WitnessCompat ==
    /\ pc = "done"
    /\ args.op = "areSchemasCompatible"
    /\ Depth(args.target) = 3
    /\ args.source = args.target
    /\ result.returned = [returned |-> TRUE]

(***************************************************************************)
(* Properties of the validators, continued (SpecValidator): custom         *)
(* schemas with two checks, arrays, container mismatches, error paths.     *)
(***************************************************************************)
\* the validators that have answered for (args.value, args.schema)
Builds == IF pc = "validate" THEN DOMAIN result ELSE {}

\* the answer of one build for a value and a schema on their own
ByBuild(build, value, schema) ==
    IF build = "sync" THEN validateValue(value, schema)
    ELSE Async_validateValue(value, schema)

\* each message with the path in front of it
Under(path, errs) == [i \in 1..Len(errs) |-> path \o errs[i]]

IsArraySchema(schema) == schema.kind = "array" /\ Has(schema, "items")

\* the messages the length bounds of an array schema call for
BoundMessages(value, schema) ==
    LET len == Len(value.elems)
        atLeast ==
            IF Has(schema, "minItems") /\ len < schema.minItems
            THEN <<"Array must have at least " \o ToString(schema.minItems)
                   \o " items, got " \o ToString(len)>>
            ELSE <<>>
        atMost ==
            IF Has(schema, "maxItems") /\ len > schema.maxItems
            THEN <<"Array must have at most " \o ToString(schema.maxItems)
                   \o " items, got " \o ToString(len)>>
            ELSE <<>>
    IN  atLeast \o atMost

C21_Case ==
    /\ pc = "validate"
    /\ args.schema.kind = "custom"
    /\ Has(args.schema, "validator")
    /\ Has(args.schema, "innerSchema")

\* the message of the validator's check when the validator answers false
C21_ValidatorErrors ==
    IF ~Truthy(Await(UserValidator(args.schema.validator, args.value)))
    THEN <<CustomFailedMessage(args.schema.typeName)>>
    ELSE <<>>

\* C21: for a custom schema with a validator and an innerSchema both checks
\* run whatever the other answers: the errors are the 'Custom validation
\* failed for type: {typeName}' message when the validator rejects, followed
\* by the inner schema's errors unprefixed; in the synchronous validator as
\* in the asynchronous one.
C21_BothChecksAccumulate ==
    C21_Case =>
        \A b \in Builds :
            result[b].errors =
                C21_ValidatorErrors
                \o ByBuild(b, args.value, args.schema.innerSchema).errors

\* What the code does in C21's case: the asynchronous validator accumulates
\* the errors of both checks.
C21_AsyncBothChecksAccumulate ==
    (C21_Case /\ Has(result, "async")) =>
        result.async.errors =
            C21_ValidatorErrors
            \o Async_validateValue(args.value, args.schema.innerSchema).errors

\* What the code does in C21's case: the synchronous validator reports the
\* inner schema's errors, unprefixed, and nothing for the validator.
C21_SyncInnerErrorsOnly ==
    (C21_Case /\ Has(result, "sync")) =>
        result.sync.errors = validateValue(args.value, args.schema.innerSchema).errors

C22_Case ==
    /\ pc = "validate"
    /\ IsArraySchema(args.schema)
    /\ Len(args.schema.items) >= 2
    /\ IsArray(args.value)

\* the tuple-length message, then the errors of the positions both the tuple
\* and the value have, each under 'Item at index {i}: '
C22_Expected(build) ==
    LET n == Len(args.schema.items)
        m == Len(args.value.elems)
        mismatch ==
            IF m # n
            THEN <<"Expected tuple of " \o ToString(n) \o " elements, but got "
                   \o ToString(m) \o " elements">>
            ELSE <<>>
    IN  mismatch
        \o Flatten([i \in 1..Min(n, m) |->
                Under("Item at index " \o ToString(i - 1) \o ": ",
                      ByBuild(build, args.value.elems[i], args.schema.items[i]).errors)])

\* C22: a tuple schema of n >= 2 item schemas and an array of length m: when
\* m # n one tuple-length error comes before every per-index error; the
\* indices below min(n, m), and no others, are validated against items[i]
\* in ascending order, each error under 'Item at index {i}: '.
C22_TupleValidation ==
    C22_Case =>
        \A b \in Builds :
            result[b].errors = BoundMessages(args.value, args.schema) \o C22_Expected(b)

\* ['a'] against [string, number]: the length mismatch and nothing else
C22_Witness ==
    /\ pc = "validate"
    /\ args.schema =
        SchemaBuilder_array(<<SchemaBuilder_string, SchemaBuilder_number>>, <<>>)
    /\ args.value = Arr(<<Str>>)
    /\ Has(result, "sync")
    /\ result.sync.errors = <<"Expected tuple of 2 elements, but got 1 elements">>

\* three elements against a pair of strings: the mismatch, then the error of
\* index 1; the number at index 2 is not looked at
C22_WitnessLonger ==
    /\ pc = "validate"
    /\ args.schema =
        SchemaBuilder_array(<<SchemaBuilder_string, SchemaBuilder_string>>, <<>>)
    /\ args.value = Arr(<<Str, Num, Num>>)
    /\ Has(result, "async")
    /\ result.async.errors =
        <<"Expected tuple of 2 elements, but got 3 elements",
          "Item at index 1: Expected string, got number">>

C23_Case ==
    /\ pc = "validate"
    /\ IsArraySchema(args.schema)
    /\ Len(args.schema.items) = 1
    /\ IsArray(args.value)

\* C23: a homogeneous array schema and an array value: every element is
\* validated against items[0] in ascending order and the errors are, after
\* the length-bound errors, the elements' errors each under 'Item[{index}]: ';
\* an empty array is valid when no minItems is set.
C23_HomogeneousValidation ==
    C23_Case =>
        \A b \in Builds :
            /\ result[b].errors =
                BoundMessages(args.value, args.schema)
                \o Flatten([i \in 1..Len(args.value.elems) |->
                        Under("Item[" \o ToString(i - 1) \o "]: ",
                              ByBuild(b, args.value.elems[i], args.schema.items[1]).errors)])
            /\ (args.value.elems = <<>> /\ ~Has(args.schema, "minItems")) =>
                    result[b].isValid

\* [1, 2] against an array of strings: two errors, for Item[0] and Item[1]
C23_Witness ==
    /\ pc = "validate"
    /\ args.schema = SchemaBuilder_array(<<SchemaBuilder_string>>, <<>>)
    /\ args.value = Arr(<<Num, Num>>)
    /\ Has(result, "sync")
    /\ result.sync.errors =
        <<"Item[0]: Expected string, got number",
          "Item[1]: Expected string, got number">>

\* the empty array against an array of numbers with no minItems: valid
C23_WitnessEmpty ==
    /\ pc = "validate"
    /\ args.schema = SchemaBuilder_array(<<SchemaBuilder_number>>, [maxItems |-> 1])
    /\ args.value = Arr(<<>>)
    /\ Has(result, "sync")
    /\ result.sync = [isValid |-> TRUE, errors |-> <<>>]

EmptyTupleMessage ==
    "Array schema defines an empty tuple, but received a non-empty array."

C24_Case ==
    /\ pc = "validate"
    /\ IsArraySchema(args.schema)
    /\ Len(args.schema.items) = 0
    /\ IsArray(args.value)

\* C24: an array schema with empty `items`: apart from length-bound errors,
\* an empty array is valid and a non-empty array gets exactly one
\* empty-tuple error however many elements it has.
C24_EmptyTuple ==
    C24_Case =>
        \A b \in Builds :
            result[b].errors =
                BoundMessages(args.value, args.schema)
                \o (IF Len(args.value.elems) > 0 THEN <<EmptyTupleMessage>> ELSE <<>>)

\* three elements against the empty tuple: one error
C24_Witness ==
    /\ pc = "validate"
    /\ args.schema = SchemaBuilder_array(<<>>, <<>>)
    /\ args.value = Arr(<<Str, Num, Num>>)
    /\ Has(result, "sync")
    /\ result.sync.errors = <<EmptyTupleMessage>>

\* the empty array against the empty tuple: valid
C24_WitnessEmpty ==
    /\ pc = "validate"
    /\ args.schema = SchemaBuilder_array(<<>>, <<>>)
    /\ args.value = Arr(<<>>)
    /\ Has(result, "async")
    /\ result.async.isValid

C25_Case ==
    /\ pc = "validate"
    /\ IsArraySchema(args.schema)
    /\ Has(args.schema, "minItems") \/ Has(args.schema, "maxItems")
    /\ IsArray(args.value)

\* the schema without its length bounds
Unbounded(schema) ==
    [f \in DOMAIN schema \ {"minItems", "maxItems"} |-> schema[f]]

\* C25: an array schema with minItems and/or maxItems and an array value:
\* one 'at least' error for a length below minItems, one 'at most' error
\* for a length above maxItems, and then every item error the schema
\* without the bounds produces.
C25_BoundsThenItems ==
    C25_Case =>
        \A b \in Builds :
            result[b].errors =
                BoundMessages(args.value, args.schema)
                \o ByBuild(b, args.value, Unbounded(args.schema)).errors

\* two numbers against at most one string: the bound, then both items
C25_Witness ==
    /\ pc = "validate"
    /\ args.schema = SchemaBuilder_array(<<SchemaBuilder_string>>, [maxItems |-> 1])
    /\ args.value = Arr(<<Num, Num>>)
    /\ Has(result, "sync")
    /\ result.sync.errors =
        <<"Array must have at most 1 items, got 2",
          "Item[0]: Expected string, got number",
          "Item[1]: Expected string, got number">>

\* the empty array against a pair with minItems 1: the bound, then the
\* tuple-length mismatch
C25_WitnessAtLeast ==
    /\ pc = "validate"
    /\ args.schema =
        SchemaBuilder_array(<<SchemaBuilder_string, SchemaBuilder_number>>,
                            [minItems |-> 1, maxItems |-> 1])
    /\ args.value = Arr(<<>>)
    /\ Has(result, "async")
    /\ result.async.errors =
        <<"Array must have at least 1 items, got 0",
          "Expected tuple of 2 elements, but got 0 elements">>

\* C26: a container-kind mismatch gives exactly one error: an array schema
\* with a value that is no array answers ['Expected array'], an object
\* schema with null, an array or a value that is no object answers
\* ['Expected object'].
C26_ContainerMismatch ==
    pc = "validate" =>
        \A b \in Builds :
            /\ (args.schema.kind = "array" /\ args.value.t # "array") =>
                    result[b] = [isValid |-> FALSE, errors |-> <<"Expected array">>]
            /\ (args.schema.kind = "object" /\ args.value.t # "object") =>
                    result[b] = [isValid |-> FALSE, errors |-> <<"Expected object">>]

\* a number against a pair with a length bound: 'Expected array' alone
C26_Witness ==
    /\ pc = "validate"
    /\ args.schema =
        SchemaBuilder_array(<<SchemaBuilder_string, SchemaBuilder_number>>,
                            [minItems |-> 1])
    /\ args.value = Num
    /\ Has(result, "sync")
    /\ result.sync.errors = <<"Expected array">>

\* null against an object schema with required names: 'Expected object' alone
C26_WitnessNull ==
    /\ pc = "validate"
    /\ args.schema =
        SchemaBuilder_object(<<Prop("id", SchemaBuilder_number)>>,
                             [required |-> <<"id", "name">>])
    /\ args.value = Null
    /\ Has(result, "sync")
    /\ result.sync.errors = <<"Expected object">>

\* an array against an object schema
C26_WitnessArray ==
    /\ pc = "validate"
    /\ args.schema.kind = "object"
    /\ args.value = Arr(<<Str, Num>>)
    /\ Has(result, "async")
    /\ result.async.errors = <<"Expected object">>

\* the errors of a value against a schema, each written with the path from
\* the root to the place that produced it: a property adds
\* 'Property '{key}': ', a position of a list 'Item[{i}]: ', a position of a
\* tuple 'Item at index {i}: ', a custom schema nothing
RECURSIVE ErrorsAlong(_, _, _, _)
ErrorsAlong(build, path, value, schema) ==
    CASE schema.kind = "primitive" ->
            Under(path, ByBuild(build, value, schema).errors)
      [] schema.kind = "array" ->
            IF ~IsArray(value) THEN <<path \o "Expected array">>
            ELSE LET n == Len(schema.items)
                     m == Len(value.elems)
                 IN  Under(path, BoundMessages(value, schema))
                     \o (IF n = 0
                         THEN Under(path, IF m > 0 THEN <<EmptyTupleMessage>> ELSE <<>>)
                         ELSE IF n = 1
                         THEN Flatten([i \in 1..m |->
                                ErrorsAlong(build,
                                    path \o "Item[" \o ToString(i - 1) \o "]: ",
                                    value.elems[i], schema.items[1])])
                         ELSE Under(path,
                                IF m # n
                                THEN <<"Expected tuple of " \o ToString(n)
                                       \o " elements, but got " \o ToString(m)
                                       \o " elements">>
                                ELSE <<>>)
                              \o Flatten([i \in 1..Min(n, m) |->
                                    ErrorsAlong(build,
                                        path \o "Item at index " \o ToString(i - 1) \o ": ",
                                        value.elems[i], schema.items[i])]))
      [] schema.kind = "object" ->
            IF value.t # "object" THEN <<path \o "Expected object">>
            ELSE LET entries == schema.properties.own
                 IN  Under(path, MissingErrors(value, schema))
                     \o Flatten([i \in 1..Len(entries) |->
                            IF In(entries[i].key, value)
                            THEN ErrorsAlong(build,
                                    path \o "Property '" \o entries[i].key \o "': ",
                                    Get(value, entries[i].key), entries[i].val)
                            ELSE <<>>])
                     \o Under(path, UnexpectedErrors(value, schema))
      [] schema.kind = "custom" ->
            Under(path,
                  ByBuild(build, value,
                          [f \in DOMAIN schema \ {"innerSchema"} |-> schema[f]]).errors)
            \o (IF Has(schema, "innerSchema")
                THEN ErrorsAlong(build, path, value, schema.innerSchema)
                ELSE <<>>)

\* C28: nested errors are wrapped once per nesting level, outermost first:
\* an error carries the prefixes of the object properties and array
\* positions on the path from the root to the place that produced it, in
\* that order, and nothing for a custom schema on the path.
C28_PrefixPerLevel ==
    pc = "validate" =>
        \A b \in Builds :
            result[b].errors = ErrorsAlong(b, "", args.value, args.schema)

\* a number at index 2 of property 'tags', typed as array of string
C28_Witness ==
    /\ pc = "validate"
    /\ args.schema =
        SchemaBuilder_object(
            <<Prop("tags", SchemaBuilder_array(<<SchemaBuilder_string>>, <<>>))>>, <<>>)
    /\ args.value = Obj(<<Prop("tags", Arr(<<Str, Str, Num>>))>>)
    /\ Has(result, "sync")
    /\ result.sync.errors =
        <<"Property 'tags': Item[2]: Expected string, got number">>

\* a position of a tuple above a position of a list
C28_WitnessTuple ==
    /\ pc = "validate"
    /\ args.value = Arr(<<Str, Arr(<<Str, Num>>)>>)
    /\ Has(result, "sync")
    /\ result.sync.errors = <<"Item at index 1: Item[1]: Expected string, got number">>

\* a custom schema on the path: the inner schema's error as it is
C28_WitnessCustom ==
    /\ pc = "validate"
    /\ args.schema =
        SchemaBuilder_custom("email", [innerSchema |-> SchemaBuilder_string])
    /\ args.value = Num
    /\ Has(result, "sync")
    /\ result.sync.errors = <<"Expected string, got number">>

(***************************************************************************)
(* SpecAsync: one call of the asynchronous validateValue (the bundle) run  *)
(* await by await.  Every call of an async function is a task; a task      *)
(* that awaits is suspended until what it awaits has settled, and the      *)
(* promise of a user's asynchronous validator settles when the             *)
(* environment lets it.  result.tasks holds the tasks, each named by its   *)
(* path from the outermost call; result.pending the validator invocations  *)
(* whose promise has not settled; result.invoked the invocations so far,   *)
(* in order.                                                               *)
(***************************************************************************)
HasValidator(schema) == Kind(schema) = "custom" /\ Has(schema, "validator")

\* a call of the async validateValue at its first statement
AsyncTask(path, call) ==
    [path |-> path, call |-> call, next |-> 1,
     phase |-> IF HasValidator(call.schema) THEN "validator" ELSE "nested"]

\* a task that starts a nested validation and goes on without awaiting it
Mutant_AwaitNested(task) == [task EXCEPT !.next = @ + 1]

\* `await this.validateValue(...)`: the task is suspended on the call it
\* has just made
AwaitNested(task) == [task EXCEPT !.phase = "awaitNested"]

\* `const isValid = await result`: the task is suspended on the promise the
\* validator returned
AwaitValidator(task) == [task EXCEPT !.phase = "awaitValidator"]

AsyncValues ==
    StepValues
    \cup {Arr(<<Str, Str>>), Arr(<<Str, Num, Num>>),
          Obj(<<Prop("id", Str), Prop("name", Num)>>)}

AsyncItemSchemas ==
    {SchemaBuilder_custom("email", [validator |-> "asyncIsString"]),
     SchemaBuilder_custom("email", [validator |-> "isString"])}

AsyncSchemas ==
    NestedSchemas \cup CustomSchemas
    \cup {SchemaBuilder_array(items, <<>>) : items \in SeqsUpTo(AsyncItemSchemas, MaxLen)}
    \cup {SchemaBuilder_object(
            <<Prop("id", SchemaBuilder_custom("email", [validator |-> "asyncIsString"])),
              Prop("name", SchemaBuilder_custom("name", [validator |-> "asyncIsString"]))>>,
            <<>>),
          SchemaBuilder_custom("list",
            [validator |-> "asyncIsString",
             innerSchema |-> SchemaBuilder_array(
                <<SchemaBuilder_custom("email", [validator |-> "asyncIsString"])>>, <<>>)])}

InitAsync ==
    /\ types = InitialTypes
    /\ pc = "async"
    /\ args \in {ValidateCall(v, s) : v \in AsyncValues, s \in AsyncSchemas}
    /\ result = [tasks |-> {AsyncTask(<<>>, args)}, pending |-> {}, invoked |-> <<>>]

\* validateCustom calls schema.validator(value); the invocation is pending
\* when the user's validator answered with a promise
InvokeValidator ==
    /\ pc = "async"
    /\ \E task \in result.tasks :
        /\ task.phase = "validator"
        /\ result' =
            [result EXCEPT
                !.tasks = (@ \ {task}) \cup {AwaitValidator(task)},
                !.pending =
                    IF IsPromise(UserValidator(task.call.schema.validator, task.call.value))
                    THEN @ \cup {task.path} ELSE @,
                !.invoked = Append(@, task.path)]
    /\ UNCHANGED <<types, pc, args>>

\* the promise of a user's validator settles
SettleValidator ==
    /\ pc = "async"
    /\ \E path \in result.pending :
        result' = [result EXCEPT !.pending = @ \ {path}]
    /\ UNCHANGED <<types, pc, args>>

\* the task suspended on a validator's promise goes on once it has settled
ResumeAfterValidator ==
    /\ pc = "async"
    /\ \E task \in result.tasks :
        /\ task.phase = "awaitValidator"
        /\ task.path \notin result.pending
        /\ result' = [result EXCEPT
                        !.tasks = (@ \ {task}) \cup {[task EXCEPT !.phase = "nested"]}]
    /\ UNCHANGED <<types, pc, args>>

\* a task makes its next nested call of validateValue and awaits it
StartNested ==
    /\ pc = "async"
    /\ \E task \in result.tasks :
        /\ task.phase = "nested"
        /\ task.next <= Len(ValidatorCalls(task.call.value, task.call.schema))
        /\ result' =
            [result EXCEPT
                !.tasks = (@ \ {task})
                    \cup {AwaitNested(task),
                          AsyncTask(Append(task.path, task.next),
                                    ValidatorCalls(task.call.value, task.call.schema)[task.next])}]
    /\ UNCHANGED <<types, pc, args>>

\* the task suspended on a nested call goes on once that call has returned
ResumeAfterNested ==
    /\ pc = "async"
    /\ \E task \in result.tasks : \E child \in result.tasks :
        /\ task.phase = "awaitNested"
        /\ child.path = Append(task.path, task.next)
        /\ child.phase = "returned"
        /\ result' =
            [result EXCEPT
                !.tasks = (@ \ {task, child})
                    \cup {[task EXCEPT !.phase = "nested", !.next = @ + 1]}]
    /\ UNCHANGED <<types, pc, args>>

\* a nested call has made its calls and returns: its promise settles
ReturnAsync ==
    /\ pc = "async"
    /\ \E task \in result.tasks :
        /\ task.path # <<>>
        /\ task.phase = "nested"
        /\ task.next > Len(ValidatorCalls(task.call.value, task.call.schema))
        /\ result' = [result EXCEPT
                        !.tasks = (@ \ {task}) \cup {[task EXCEPT !.phase = "returned"]}]
    /\ UNCHANGED <<types, pc, args>>

\* the outermost call returns: the promise handed to the caller settles
FinishAsync ==
    /\ pc = "async"
    /\ \E task \in result.tasks :
        /\ task.path = <<>>
        /\ task.phase = "nested"
        /\ task.next > Len(ValidatorCalls(task.call.value, task.call.schema))
        /\ result' = [result EXCEPT
                        !.tasks = (@ \ {task}) \cup {[task EXCEPT !.phase = "returned"]}]
    /\ pc' = "settled"
    /\ UNCHANGED <<types, args>>

NextAsync ==
    \/ InvokeValidator
    \/ SettleValidator
    \/ ResumeAfterValidator
    \/ StartNested
    \/ ResumeAfterNested
    \/ ReturnAsync
    \/ FinishAsync

SpecAsync == InitAsync /\ [][NextAsync]_vars

\* one sequence begins the other
IsPrefix(p, q) == Len(p) <= Len(q) /\ SubSeq(q, 1, Len(p)) = p

\* the validations that have started and not returned
Running == {task \in result.tasks : task.phase # "returned"}

\* the paths of the custom schemas with a validator, in the order of the
\* indices and properties of the descent, a schema before what it holds
RECURSIVE ValidatorOrder(_, _, _)
ValidatorOrder(path, value, schema) ==
    LET calls == ValidatorCalls(value, schema)
    IN  (IF HasValidator(schema) THEN <<path>> ELSE <<>>)
        \o Flatten([i \in 1..Len(calls) |->
                ValidatorOrder(Append(path, i), calls[i].value, calls[i].schema)])

\* C27: within one call of the asynchronous validateValue at most one
\* custom-validator invocation is pending at any time; of two validations
\* that are running one is nested in the other, so siblings never overlap;
\* and the validators are invoked in index/property order.
C27_OnePendingValidator ==
    pc \in {"async", "settled"} =>
        /\ Cardinality(result.pending) <= 1
        /\ \A t, u \in Running : IsPrefix(t.path, u.path) \/ IsPrefix(u.path, t.path)
        /\ IsPrefix(result.invoked, ValidatorOrder(<<>>, args.value, args.schema))
        /\ pc = "settled" =>
                /\ result.pending = {}
                /\ result.invoked = ValidatorOrder(<<>>, args.value, args.schema)

\* the validator of the second element is pending; the first has settled
\* and its validation has returned
C27_Witness ==
    /\ pc = "async"
    /\ args.schema =
        SchemaBuilder_array(
            <<SchemaBuilder_custom("email", [validator |-> "asyncIsString"])>>, <<>>)
    /\ args.value = Arr(<<Str, Str>>)
    /\ result.pending = {<<2>>}
    /\ result.invoked = <<<<1>>, <<2>>>>

\* the validator of a custom schema has settled and its inner schema's
\* validator is pending
C27_WitnessInner ==
    /\ pc = "async"
    /\ args.schema.kind = "custom"
    /\ result.invoked = <<<<>>, <<1, 1>>>>
    /\ result.pending = {<<1, 1>>}

\* both properties' validators were invoked, one after the other, and the
\* call has returned
C27_WitnessProperties ==
    /\ pc = "settled"
    /\ args.schema.kind = "object"
    /\ result.invoked = <<<<1>>, <<2>>>>

(***************************************************************************)
(* Properties of the registry over any sequence of calls (Spec).           *)
(***************************************************************************)
\* the three built-in names are registered with their primitive schemas
BuiltinsRegistered ==
    /\ {"string", "number", "boolean"} \subseteq TypeNames(types)
    /\ getType(types, "string") = STRING_TYPE
    /\ getType(types, "number") = NUMBER_TYPE
    /\ getType(types, "boolean") = BOOLEAN_TYPE
    /\ STRING_TYPE.schema = [kind |-> "primitive", type |-> "string"]
    /\ NUMBER_TYPE.schema = [kind |-> "primitive", type |-> "number"]
    /\ BOOLEAN_TYPE.schema = [kind |-> "primitive", type |-> "boolean"]

\* the call being made is a registerType, or a defineType, that does not raise
SuccessfulRegisterType ==
    /\ pc = "idle"
    /\ pc' = "called"
    /\ args'.op \in {"registerType", "defineType"}
    /\ ~Has(result', "threw")

\* one step of the registry: every registered name keeps its definition;
\* a change is the addition of one new name by a successful registerType
RegistryStep ==
    /\ \A name \in TypeNames(types) :
            /\ name \in TypeNames(types')
            /\ getType(types', name) = getType(types, name)
    /\ types' # types =>
            /\ SuccessfulRegisterType
            /\ args'.def.name \notin TypeNames(types)
            /\ TypeNames(types') = TypeNames(types) \cup {args'.def.name}
            /\ Len(types') = Len(types) + 1
            /\ getType(types', args'.def.name) = args'.def

\* C29: after any sequence of registerType, defineType, getType, hasType,
\* getTypeNames, validateValue, compatibility and factory calls the
\* registry holds 'string', 'number' and 'boolean' with their built-in
\* primitive schemas, and a name once registered keeps its definition: only
\* a successful registerType changes the registry, by adding one new name.
C29_RegistryGrowsOnly == []BuiltinsRegistered /\ [][RegistryStep]_vars

\* 'email' was registered as a custom type, a later registerType of
\* 'email' as a string raised, and 'email' is what it was
C29_Witness ==
    /\ pc = "called"
    /\ args.op = "registerType"
    /\ args.def = TypeDefinition("email", SchemaBuilder_string)
    /\ Has(result, "threw")
    /\ getType(types, "email") = TypeDefinition("email", EmailSchema)
    /\ BuiltinsRegistered

\* a read of the registry after two registrations
C29_WitnessRead ==
    /\ pc = "called"
    /\ args.op = "getTypeNames"
    /\ result.returned = <<"string", "number", "boolean", "user", "tags">>

(***************************************************************************)
(* SpecIgnored: two pairs of schemas compared by areSchemasCompatible, the *)
(* second pair written from the first by changing, at any depth, only      *)
(* minItems/maxItems of arrays, additionalProperties of objects and, on    *)
(* the source side, `required`.                                            *)
(***************************************************************************)
IgnoredBase ==
    {SchemaBuilder_string,
     SchemaBuilder_custom("email", <<>>),
     SchemaBuilder_array(<<>>, <<>>),
     SchemaBuilder_array(<<SchemaBuilder_string>>, <<>>),
     SchemaBuilder_array(<<SchemaBuilder_string, SchemaBuilder_number>>, <<>>),
     SchemaBuilder_object(<<Prop("id", SchemaBuilder_number)>>, <<>>),
     SchemaBuilder_object(<<Prop("id", SchemaBuilder_number),
                            Prop("name", SchemaBuilder_string)>>,
                          [required |-> <<"id">>]),
     SchemaBuilder_object(<<Prop("name", SchemaBuilder_string)>>,
                          [required |-> <<"id">>]),
     SchemaBuilder_object(
        <<Prop("id", SchemaBuilder_array(<<SchemaBuilder_number>>, <<>>))>>, <<>>),
     SchemaBuilder_array(
        <<SchemaBuilder_object(<<Prop("id", SchemaBuilder_number)>>,
                               [required |-> <<"id">>])>>, <<>>)}

\* the `required` lists a source schema is rewritten with
SourceRequiredOptions ==
    {<<>>, [required |-> <<"id">>], [required |-> <<"name", "toString">>]}

\* the sequences that take their i-th element from the i-th set
Product(sets) ==
    {f \in [1..Len(sets) -> UNION Range(sets)] : \A i \in 1..Len(sets) : f[i] \in sets[i]}

\* the schemas that differ from `schema` only in the fields under question
RECURSIVE Variants(_, _)
Variants(schema, side) ==
    CASE schema.kind = "array" ->
            {SchemaBuilder_array(items, o) :
                items \in Product([i \in 1..Len(schema.items) |->
                                    Variants(schema.items[i], side)]),
                o \in LengthOptions}
      [] schema.kind = "object" ->
            LET own == schema.properties.own
                required ==
                    IF side = "source" THEN SourceRequiredOptions
                    ELSE {IF Has(schema, "required")
                          THEN [required |-> schema.required] ELSE <<>>}
            IN  {SchemaBuilder_object([i \in 1..Len(own) |-> Prop(own[i].key, vals[i])],
                                      r @@ a) :
                    vals \in Product([i \in 1..Len(own) |-> Variants(own[i].val, side)]),
                    r \in required, a \in AdditionalOptions}
      [] OTHER -> {schema}

InitIgnored ==
    /\ types = InitialTypes
    /\ pc = "ignored"
    /\ \E source \in IgnoredBase, target \in IgnoredBase :
        \E source2 \in Variants(source, "source"), target2 \in Variants(target, "target") :
            args = [source |-> source, target |-> target,
                    source2 |-> source2, target2 |-> target2]
    /\ result = <<>>

CompareBoth ==
    /\ pc = "ignored"
    /\ result = <<>>
    /\ result' = [first |-> areSchemasCompatible(args.source, args.target),
                  second |-> areSchemasCompatible(args.source2, args.target2)]
    /\ UNCHANGED <<types, pc, args>>

NextIgnored == CompareBoth

SpecIgnored == InitIgnored /\ [][NextIgnored]_vars

\* C30: the schema-level compatibility verdict does not depend on
\* minItems/maxItems of arrays, on additionalProperties of objects or on
\* the source's `required`: two pairs of schemas that differ only in those
\* fields, at any depth, get the same verdict.
C30_VerdictIgnoresFields ==
    (pc = "ignored" /\ Has(result, "first")) => result.first = result.second

\* compatible objects stay compatible with the source's `required` and
\* additionalProperties and the target's additionalProperties rewritten
C30_Witness ==
    /\ pc = "ignored"
    /\ args.source =
        SchemaBuilder_object(<<Prop("id", SchemaBuilder_number),
                               Prop("name", SchemaBuilder_string)>>,
                             [required |-> <<"id">>])
    /\ args.source2 =
        SchemaBuilder_object(<<Prop("id", SchemaBuilder_number),
                               Prop("name", SchemaBuilder_string)>>,
                             [required |-> <<"name", "toString">>,
                              additionalProperties |-> TRUE])
    /\ args.target = SchemaBuilder_object(<<Prop("id", SchemaBuilder_number)>>, <<>>)
    /\ args.target2 = SchemaBuilder_object(<<Prop("id", SchemaBuilder_number)>>,
                                           [additionalProperties |-> TRUE])
    /\ result = [first |-> TRUE, second |-> TRUE]

\* length bounds rewritten inside an object on both sides
C30_WitnessNested ==
    /\ pc = "ignored"
    /\ args.source = SchemaBuilder_object(
            <<Prop("id", SchemaBuilder_array(<<SchemaBuilder_number>>, <<>>))>>, <<>>)
    /\ args.target = args.source
    /\ args.source2 = SchemaBuilder_object(
            <<Prop("id", SchemaBuilder_array(<<SchemaBuilder_number>>, [minItems |-> 1]))>>,
            <<>>)
    /\ args.target2 = SchemaBuilder_object(
            <<Prop("id", SchemaBuilder_array(<<SchemaBuilder_number>>, [maxItems |-> 1]))>>,
            <<>>)
    /\ result = [first |-> TRUE, second |-> TRUE]

\* incompatible pairs stay incompatible
C30_WitnessIncompatible ==
    /\ pc = "ignored"
    /\ args.source # args.source2
    /\ args.target # args.target2
    /\ result = [first |-> FALSE, second |-> FALSE]

====
